---------------------------- MODULE Spec2Model ----------------------------
(***************************************************************************)
(* Model of the Dynamics report extension of timewarrior-extensions        *)
(* (src/dynamics_common.py): project resolution, 15-minute rounding, the   *)
(* draft merge engine, the absorption pass and finalization, the           *)
(* resolution of settings and the description refiner.                     *)
(*                                                                         *)
(* Strings are sequences of atoms.  An atom is a TLA+ string that stands   *)
(* for one fixed, non-empty run of characters (a word, ";" or " "); the     *)
(* atoms use pairwise different characters, so two atom sequences are      *)
(* equal exactly when the character strings they stand for are equal, and  *)
(* a delimiter (itself an atom sequence) occurs in a string exactly where  *)
(* its atoms occur.  len() is the sum of the atoms' widths.                *)
(***************************************************************************)
EXTENDS Integers, Sequences, FiniteSets, TLC

VARIABLES
    \* resolve_project_config, called on its own
    rp_tags, rp_configs, rp_result, rp_pc,
    \* billable_minutes_from_raw_seconds, called on its own
    rd_raw, rd_mult, rd_minutes, rd_pc,
    \* build_dynamics_records_with_absorption_report: its arguments ...
    dyn_config, on_display_values, format_in_merge, timew_entries,
    \* ... its locals and results ...
    draft_list, next_sequence, absorption_report, records, pc,
    \* ... and history: the last merge_drafts call, the input positions merged
    \* into each draft (by next_sequence number), the list handed to apply_absorption
    merge_call, merged_into, drafts_merged,
    \* functions called on their own: the arguments and the result of one call
    commute_call, annotations_call, draft_call, value_call, refine_call, overtime_call, allocate_call

resolveVars == <<rp_tags, rp_configs, rp_result, rp_pc>>
roundVars == <<rd_raw, rd_mult, rd_minutes, rd_pc>>
buildVars ==
    <<dyn_config, on_display_values, format_in_merge, timew_entries,
      draft_list, next_sequence, absorption_report, records, pc,
      merge_call, merged_into, drafts_merged>>
callVars == <<commute_call, annotations_call, draft_call, value_call, refine_call, overtime_call, allocate_call>>
vars == <<resolveVars, roundVars, buildVars, callVars>>

\* Python's None, where a dict is expected and where a str is expected.
None == [none |-> TRUE]
NoStr == <<"<None>">>

\* Truthiness of an Optional[dict]: None and the empty dict are falsy.
Truthy(d) == d # None /\ DOMAIN d # {}

\* Truthiness of an Optional[str]: None and "" are falsy.
StrTruthy(text) == text # NoStr /\ text # <<>>

\* mapping.get(key, default)
Get(mapping, key, default) == IF key \in DOMAIN mapping THEN mapping[key] ELSE default

\* set(seq)
ToSet(seq) == {seq[i] : i \in 1..Len(seq)}

RECURSIVE SumSeq(_)
SumSeq(seq) == IF seq = <<>> THEN 0 ELSE Head(seq) + SumSeq(Tail(seq))

(***************************************************************************)
(* Strings                                                                 *)
(***************************************************************************)
\* Width, in characters, of the long word "L".
LongWordWidth == 249

\* Number of characters an atom stands for.
AtomWidth(atom) == IF atom = "L" THEN LongWordWidth ELSE 1

\* len(text)
StrLen(text) == SumSeq([i \in 1..Len(text) |-> AtomWidth(text[i])])

\* text.startswith(prefix), from position i
MatchesAt(text, i, pattern) ==
    /\ i + Len(pattern) - 1 <= Len(text)
    /\ \A k \in 1..Len(pattern) : text[i + k - 1] = pattern[k]

\* text.split(delimiter) for a non-empty delimiter: left to right,
\* non-overlapping occurrences; always at least one (possibly empty) part.
RECURSIVE SplitFrom(_, _, _, _)
SplitFrom(text, delimiter, i, current) ==
    IF i > Len(text) THEN <<current>>
    ELSE IF MatchesAt(text, i, delimiter)
         THEN <<current>> \o SplitFrom(text, delimiter, i + Len(delimiter), <<>>)
         ELSE SplitFrom(text, delimiter, i + 1, Append(current, text[i]))

Split(text, delimiter) == SplitFrom(text, delimiter, 1, <<>>)

\* delimiter.join(items)
RECURSIVE Join(_, _)
Join(items, delimiter) ==
    IF items = <<>> THEN <<>>
    ELSE IF Len(items) = 1 THEN items[1]
    ELSE items[1] \o delimiter \o Join(Tail(items), delimiter)

(***************************************************************************)
(* resolve_project_config                                                  *)
(***************************************************************************)
\* config_tags == tag_set
IsExactMatchNever(config_tags, tag_set) == FALSE

IsExactMatch(config_tags, tag_set) == config_tags = tag_set

\* config_tags < tag_set (strict subset)
IsCandidateNonEmpty(config_tags, tag_set) ==
    config_tags # {} /\ config_tags \subseteq tag_set /\ config_tags # tag_set

IsCandidate(config_tags, tag_set) ==
    config_tags \subseteq tag_set /\ config_tags # tag_set

\* len(tag_set - config_tags) < len(tag_set - current_tags)
IsCloserOrEqual(tag_set, config_tags, current_tags) ==
    Cardinality(tag_set \ config_tags) <= Cardinality(tag_set \ current_tags)

IsCloser(tag_set, config_tags, current_tags) ==
    Cardinality(tag_set \ config_tags) < Cardinality(tag_set \ current_tags)

\* project_config.get("timew_tags", []) as a set
ConfigTags(project_config) ==
    IF "timew_tags" \in DOMAIN project_config THEN project_config.timew_tags ELSE {}

\* The loop over project_configs from position i on; returned = TRUE when the
\* loop left through the exact-match return.
RECURSIVE ScanConfigs(_, _, _, _)
ScanConfigs(tag_set, project_configs, i, chosen_config) ==
    IF i > Len(project_configs)
    THEN [returned |-> FALSE, config |-> chosen_config]
    ELSE LET project_config == project_configs[i]
             config_tags == ConfigTags(project_config)
         IN IF IsExactMatch(config_tags, tag_set)
            THEN [returned |-> TRUE, config |-> project_config]
            ELSE IF IsCandidate(config_tags, tag_set)
                 THEN IF chosen_config = None
                      THEN ScanConfigs(tag_set, project_configs, i + 1, project_config)
                      ELSE IF IsCloser(tag_set, config_tags, ConfigTags(chosen_config))
                           THEN ScanConfigs(tag_set, project_configs, i + 1, project_config)
                           ELSE ScanConfigs(tag_set, project_configs, i + 1, chosen_config)
                 ELSE ScanConfigs(tag_set, project_configs, i + 1, chosen_config)

\* f"NO PROJECT FOUND FOR THESE TAGS: {', '.join(tags)}" / "NO TAGS DEFINED ..."
ProjectNote(tags) ==
    IF ToSet(tags) # {}
    THEN <<"NO PROJECT FOUND FOR THESE TAGS: ">> \o Join(tags, <<", ">>)
    ELSE <<"NO TAGS DEFINED TO THIS TIME ENTRY">>

FallbackConfig(tags) ==
    [project |-> ProjectNote(tags), project_task |-> <<"-">>, role |-> <<"-">>]

resolve_project_config(tags, project_configs) ==
    LET scan == ScanConfigs(ToSet(tags), project_configs, 1, None)
    IN IF scan.returned THEN scan.config
       ELSE IF Truthy(scan.config) THEN scan.config
       ELSE FallbackConfig(tags)

(***************************************************************************)
(* Rounding                                                                *)
(***************************************************************************)
\* A float that is a dyadic rational num/den (exact in binary floating point).
\* math.ceil(numerator / divisor) if numerator > 0 else 0
CeilDivFloor(numerator, divisor) ==
    IF numerator.num > 0
    THEN numerator.num \div (numerator.den * divisor)
    ELSE 0

CeilDiv(numerator, divisor) ==
    IF numerator.num > 0
    THEN (numerator.num + numerator.den * divisor - 1) \div (numerator.den * divisor)
    ELSE 0

\* blocks * 900
round_seconds_to_15m_blocks_exact(total_seconds) ==
    total_seconds.num \div total_seconds.den

round_seconds_to_15m_blocks(total_seconds) == CeilDiv(total_seconds, 900) * 900

\* float(raw_seconds) * float(multiplier), then int(rounded_seconds // 60)
billable_minutes_from_raw_seconds(raw_seconds, multiplier) ==
    round_seconds_to_15m_blocks(
        [num |-> raw_seconds * multiplier.num, den |-> multiplier.den]) \div 60

\* round_seconds_to_15m_blocks(float(raw_seconds)) - int(raw_seconds)
slack_seconds_whole_block(raw_seconds) == 900

slack_seconds_from_raw_seconds(raw_seconds) ==
    round_seconds_to_15m_blocks([num |-> raw_seconds, den |-> 1]) - raw_seconds

(***************************************************************************)
(* Constants of dynamics_common.py                                         *)
(***************************************************************************)
DEFAULT_ANNOTATION_DELIMITER == <<";", " ">>
DEFAULT_OUTPUT_SEPARATOR == <<"NL">>
DEFAULT_TYPE == <<"Work">>
MAX_DESCRIPTION_LENGTH == 500

(***************************************************************************)
(* join_unique, merge_annotations                                          *)
(***************************************************************************)
\* The loop of join_unique: keep an item unless it is already in unique.
RECURSIVE UniqueItems(_, _)
UniqueItems(items, unique) ==
    IF items = <<>> THEN unique
    ELSE IF Head(items) \in ToSet(unique)
         THEN UniqueItems(Tail(items), unique)
         ELSE UniqueItems(Tail(items), Append(unique, Head(items)))

join_unique(items, delimiter) == Join(UniqueItems(items, <<>>), delimiter)

merge_annotations_keep_duplicates(existing, addition, delimiter) ==
    Join(<<existing, addition>>, delimiter)

merge_annotations(existing, addition, delimiter) ==
    join_unique(Split(Join(<<existing, addition>>, delimiter), delimiter), delimiter)

(***************************************************************************)
(* has_excluded_tags, build_dynamics_draft, finalize_draft                 *)
(***************************************************************************)
has_excluded_tags_never(tags, excluded_tags) == FALSE

has_excluded_tags(tags, excluded_tags) ==
    IF excluded_tags = {} \/ tags = <<>> THEN FALSE
    ELSE \E i \in 1..Len(tags) : tags[i] \in excluded_tags

\* int((end_dt - start_dt).total_seconds())
RawSecondsRoundedPerInterval(timew_entry) ==
    round_seconds_to_15m_blocks([num |-> timew_entry.end - timew_entry.start, den |-> 1])

RawSeconds(timew_entry) == timew_entry.end - timew_entry.start

\* start_dt.astimezone().strftime("%Y-%m-%d"): the local calendar day of the
\* start, time being counted in seconds of local time.
LocalDate(timew_entry) == timew_entry.start \div 86400

\* The annotation delimiter of a draft (override, else project value, else
\* default; an empty value falls back to the default).
ResolveAnnotationDelimiterProjectFirst(project_config, config) ==
    LET annotation_delimiter ==
            IF "annotation_delimiter" \in DOMAIN project_config
            THEN project_config.annotation_delimiter
            ELSE config.annotation_delimiter_override
    IN IF ~StrTruthy(annotation_delimiter) THEN <<";", " ">>
       ELSE annotation_delimiter

ResolveAnnotationDelimiter(project_config, config) ==
    LET annotation_delimiter ==
            IF config.annotation_delimiter_override # NoStr
            THEN config.annotation_delimiter_override
            ELSE Get(project_config, "annotation_delimiter", DEFAULT_ANNOTATION_DELIMITER)
    IN IF ~StrTruthy(annotation_delimiter) THEN DEFAULT_ANNOTATION_DELIMITER
       ELSE annotation_delimiter

ResolveOutputSeparator(project_config, config) ==
    LET output_separator ==
            IF config.annotation_output_separator_override # NoStr
            THEN config.annotation_output_separator_override
            ELSE Get(project_config, "annotation_output_separator", DEFAULT_OUTPUT_SEPARATOR)
    IN IF output_separator = NoStr \/ output_separator = <<>>
       THEN DEFAULT_OUTPUT_SEPARATOR
       ELSE output_separator

\* Returns the pair (draft, merge_on_equal_tags) as a record.
build_dynamics_draft(timew_entry, project_config, config, sequence) ==
    LET project_value ==
            IF "project_id" \in DOMAIN project_config THEN project_config.project_id
            ELSE Get(project_config, "project", <<>>)
        project_task_value ==
            IF "project_task_id" \in DOMAIN project_config THEN project_config.project_task_id
            ELSE Get(project_config, "project_task", <<>>)
        annotation == Get(timew_entry, "annotation", <<>>)
        annotation_delimiter == ResolveAnnotationDelimiter(project_config, config)
        tags == Get(timew_entry, "tags", <<>>)
    IN [draft |->
          [date |-> LocalDate(timew_entry),
           raw_seconds |-> RawSeconds(timew_entry),
           multiplier |-> Get(project_config, "multiplier", [num |-> 1, den |-> 1]),
           tags |-> tags,
           project |-> project_value,
           project_task |-> project_task_value,
           project_display |-> Get(project_config, "project", project_value),
           project_task_display |-> Get(project_config, "project_task", project_task_value),
           role |-> Get(project_config, "role", <<>>),
           type |-> Get(project_config, "type", DEFAULT_TYPE),
           description |->
               IF "description_prefix" \in DOMAIN project_config
               THEN project_config.description_prefix \o annotation_delimiter \o annotation
               ELSE annotation,
           external_comment |-> Get(project_config, "external_comment", <<>>),
           annotation_delimiter |-> annotation_delimiter,
           output_separator |-> ResolveOutputSeparator(project_config, config),
           absorbable |-> StrTruthy(config.absorb_tag) /\ config.absorb_tag \in ToSet(tags),
           sequence |-> sequence],
        merge_on_equal_tags |-> Get(project_config, "merge_on_equal_tags", FALSE)]

finalize_draft(draft) ==
    [date |-> draft.date,
     duration_minutes |-> billable_minutes_from_raw_seconds(draft.raw_seconds, draft.multiplier),
     project |-> draft.project,
     project_task |-> draft.project_task,
     project_display |-> draft.project_display,
     project_task_display |-> draft.project_task_display,
     role |-> draft.role,
     type |-> draft.type,
     description |-> draft.description,
     external_comment |-> draft.external_comment,
     annotation_delimiter |-> draft.annotation_delimiter,
     output_separator |-> draft.output_separator]

(***************************************************************************)
(* merge_drafts                                                            *)
(***************************************************************************)
should_merge_base_draft_any_day(existing, new_draft, merge_on_display_values, include_format_in_merge) ==
    LET differs ==
            \/ (IF merge_on_display_values THEN existing.project_display ELSE existing.project)
                 # (IF merge_on_display_values THEN new_draft.project_display ELSE new_draft.project)
            \/ (IF merge_on_display_values THEN existing.project_task_display
                 ELSE existing.project_task)
                 # (IF merge_on_display_values THEN new_draft.project_task_display
                    ELSE new_draft.project_task)
            \/ existing.role # new_draft.role
            \/ existing.type # new_draft.type
            \/ existing.multiplier # new_draft.multiplier
            \/ existing.absorbable # new_draft.absorbable
    IN IF differs THEN FALSE
       ELSE IF include_format_in_merge
            THEN /\ existing.annotation_delimiter = new_draft.annotation_delimiter
                 /\ existing.output_separator = new_draft.output_separator
            ELSE TRUE

should_merge_base_draft(existing, new_draft, merge_on_display_values, include_format_in_merge) ==
    LET project_value ==
            IF merge_on_display_values THEN existing.project_display ELSE existing.project
        project_task_value ==
            IF merge_on_display_values THEN existing.project_task_display
            ELSE existing.project_task
        new_project_value ==
            IF merge_on_display_values THEN new_draft.project_display ELSE new_draft.project
        new_project_task_value ==
            IF merge_on_display_values THEN new_draft.project_task_display
            ELSE new_draft.project_task
    IN IF \/ existing.date # new_draft.date
          \/ project_value # new_project_value
          \/ project_task_value # new_project_task_value
          \/ existing.role # new_draft.role
          \/ existing.type # new_draft.type
          \/ existing.multiplier # new_draft.multiplier
          \/ existing.absorbable # new_draft.absorbable
       THEN FALSE
       ELSE IF include_format_in_merge
            THEN /\ existing.annotation_delimiter = new_draft.annotation_delimiter
                 /\ existing.output_separator = new_draft.output_separator
            ELSE TRUE

\* existing.description == new_draft.description
SameDescriptionNever(existing, new_draft) == FALSE

SameDescription(existing, new_draft) == existing.description = new_draft.description

\* len(existing.description) + len(new_draft.description) <= MAX_DESCRIPTION_LENGTH
FitsTogether(existing, new_draft) ==
    StrLen(existing.description) + StrLen(new_draft.description) <= MAX_DESCRIPTION_LENGTH

\* description.split(delimiter)[0]
TitleIsWholeDescription(description, delimiter) == description

TitleOf(description, delimiter) == Split(description, delimiter)[1]

\* delimiter.join(new_draft.description.split(delimiter)[1:])
NoteItemsWithoutTitle(description, delimiter) ==
    Join(Tail(Split(description, delimiter)), delimiter)

\* existing.raw_seconds += new_draft.raw_seconds
SumRawSecondsKeepExisting(existing, new_draft) == existing.raw_seconds

SumRawSeconds(existing, new_draft) == existing.raw_seconds + new_draft.raw_seconds

\* The loop over drafts from position i on.  Returns the list after the call
\* and target: the position of the draft merged into, 0 when appended.
RECURSIVE MergeFrom(_, _, _, _, _, _)
MergeFrom(drafts, i, new_draft, merge_on_equal_tags, merge_on_display_values, include_format_in_merge) ==
    IF i > Len(drafts)
    THEN [drafts |-> Append(drafts, new_draft), target |-> 0]
    ELSE LET existing == drafts[i]
             delimiter == existing.annotation_delimiter
         IN IF ~should_merge_base_draft(existing, new_draft, merge_on_display_values,
                                        include_format_in_merge)
            THEN MergeFrom(drafts, i + 1, new_draft, merge_on_equal_tags,
                           merge_on_display_values, include_format_in_merge)
            ELSE IF SameDescription(existing, new_draft)
            THEN [drafts |-> [drafts EXCEPT ![i].raw_seconds = SumRawSeconds(existing, new_draft)],
                  target |-> i]
            ELSE IF merge_on_equal_tags /\ FitsTogether(existing, new_draft)
            THEN [drafts |->
                    [drafts EXCEPT
                       ![i].raw_seconds = SumRawSeconds(existing, new_draft),
                       ![i].description =
                           merge_annotations(existing.description, new_draft.description,
                                             delimiter)],
                  target |-> i]
            ELSE IF /\ TitleOf(existing.description, delimiter)
                         = TitleOf(new_draft.description, delimiter)
                    /\ FitsTogether(existing, new_draft)
            THEN [drafts |->
                    [drafts EXCEPT
                       ![i].raw_seconds = SumRawSeconds(existing, new_draft),
                       ![i].description =
                           merge_annotations(
                               existing.description,
                               NoteItemsWithoutTitle(new_draft.description, delimiter),
                               delimiter)],
                  target |-> i]
            ELSE MergeFrom(drafts, i + 1, new_draft, merge_on_equal_tags,
                           merge_on_display_values, include_format_in_merge)

merge_drafts(drafts, new_draft, merge_on_equal_tags, merge_on_display_values, include_format_in_merge) ==
    MergeFrom(drafts, 1, new_draft, merge_on_equal_tags, merge_on_display_values,
              include_format_in_merge)

(***************************************************************************)
(* apply_absorption                                                        *)
(***************************************************************************)
\* sorted(by_day.keys())
RECURSIVE SortedSeqDescending(_)
SortedSeqDescending(S) ==
    IF S = {} THEN <<>>
    ELSE LET greatest == CHOOSE x \in S : \A y \in S : x >= y
         IN <<greatest>> \o SortedSeqDescending(S \ {greatest})

RECURSIVE SortedSeq(_)
SortedSeq(S) ==
    IF S = {} THEN <<>>
    ELSE LET least == CHOOSE x \in S : \A y \in S : x <= y
         IN <<least>> \o SortedSeq(S \ {least})

\* sorted(items, key=lambda item: item.sequence): a stable insertion sort.
SortBySequenceKeepOrder(items) == items

RECURSIVE SortBySequence(_)
SortBySequence(items) ==
    IF items = <<>> THEN <<>>
    ELSE LET rest == SortBySequence(Tail(items))
             item == Head(items)
         IN SelectSeq(rest, LAMBDA other : other.sequence < item.sequence)
            \o <<item>>
            \o SelectSeq(rest, LAMBDA other : other.sequence >= item.sequence)

IsAdmin(item, absorb_tag) == item.absorbable /\ absorb_tag \in ToSet(item.tags)

\* The loop over admin from position i on: each admin draft gives up
\* min(raw_seconds, slack_remaining) until no slack remains.
ReduceAdminEachByAllSlack(admin, i, slack_remaining, absorbed_seconds) ==
    LET reduce_by(k) ==
            IF admin[k].raw_seconds <= slack_remaining
            THEN admin[k].raw_seconds ELSE slack_remaining
    IN [admin |-> [k \in 1..Len(admin) |->
                      [admin[k] EXCEPT !.raw_seconds = @ - reduce_by(k)]],
        absorbed_seconds |-> SumSeq([k \in 1..Len(admin) |-> reduce_by(k)])]

RECURSIVE ReduceAdmin(_, _, _, _)
ReduceAdmin(admin, i, slack_remaining, absorbed_seconds) ==
    IF i > Len(admin) \/ slack_remaining <= 0
    THEN [admin |-> admin, absorbed_seconds |-> absorbed_seconds]
    ELSE LET reduce_by ==
                 IF admin[i].raw_seconds <= slack_remaining
                 THEN admin[i].raw_seconds ELSE slack_remaining
         IN ReduceAdmin([admin EXCEPT ![i].raw_seconds = @ - reduce_by], i + 1,
                        slack_remaining - reduce_by, absorbed_seconds + reduce_by)

\* item.raw_seconds > 0, the test of admin_left
HasSecondsLeftAlways(item) == TRUE

HasSecondsLeft(item) == item.raw_seconds > 0

\* by_day[day]
DayDraftsOfAnyDay(drafts, day) == drafts

DayDrafts(drafts, day) == SelectSeq(drafts, LAMBDA item : item.date = day)

\* One iteration of the loop over the days: the drafts the day adds to
\* updated and the report it adds to reports (none without admin drafts).
AbsorbDay(day, drafts, absorb_tag) ==
    LET day_drafts == SortBySequence(DayDrafts(drafts, day))
        admin == SelectSeq(day_drafts, LAMBDA item : IsAdmin(item, absorb_tag))
        work == SelectSeq(day_drafts, LAMBDA item : ~IsAdmin(item, absorb_tag))
    IN IF admin = <<>>
       THEN [updated |-> day_drafts, reports |-> <<>>]
       ELSE LET slack_seconds ==
                    SumSeq([k \in 1..Len(work) |->
                               slack_seconds_from_raw_seconds(work[k].raw_seconds)])
                admin_raw_seconds == SumSeq([k \in 1..Len(admin) |-> admin[k].raw_seconds])
                reduced == ReduceAdmin(admin, 1, slack_seconds, 0)
                admin_left == SelectSeq(reduced.admin, HasSecondsLeft)
            IN [updated |-> work \o admin_left,
                reports |->
                  <<[date |-> day,
                     slack_seconds |-> slack_seconds,
                     admin_raw_seconds |-> admin_raw_seconds,
                     absorbed_seconds |-> reduced.absorbed_seconds,
                     leftover_raw_seconds |->
                         SumSeq([k \in 1..Len(admin_left) |-> admin_left[k].raw_seconds]),
                     leftover_exported_minutes |->
                         SumSeq([k \in 1..Len(admin_left) |->
                                    billable_minutes_from_raw_seconds(
                                        admin_left[k].raw_seconds,
                                        admin_left[k].multiplier)])]>>]

RECURSIVE AbsorbDays(_, _, _)
AbsorbDays(days, drafts, absorb_tag) ==
    IF days = <<>> THEN [updated |-> <<>>, reports |-> <<>>]
    ELSE LET first == AbsorbDay(Head(days), drafts, absorb_tag)
             rest == AbsorbDays(Tail(days), drafts, absorb_tag)
         IN [updated |-> first.updated \o rest.updated,
             reports |-> first.reports \o rest.reports]

\* Returns the pair (updated, reports) as a record.
apply_absorption(drafts, absorb_tag) ==
    LET by_day_keys == {drafts[i].date : i \in 1..Len(drafts)}
        result == AbsorbDays(SortedSeq(by_day_keys), drafts, absorb_tag)
    IN [updated |-> SortBySequence(result.updated), reports |-> result.reports]

(***************************************************************************)
(* Specification of resolve_project_config on bounded inputs               *)
(***************************************************************************)
Tags == {<<"a">>, <<"b">>, <<"c">>}
MaxConfigs == 3

\* Tag lists of an interval: no tag twice.
TagLists ==
    UNION {{t \in [1..n -> Tags] : \A i, j \in 1..n : i # j => t[i] # t[j]} :
           n \in 0..Cardinality(Tags)}

\* Project configuration files: every object has "timew_tags" (the documented
\* format) and is told apart by its project_id.
ConfigLists ==
    UNION {{[i \in 1..n |-> [timew_tags |-> f[i], project_id |-> i]] :
            f \in [1..n -> SUBSET Tags]} : n \in 0..MaxConfigs}

ResolveIdle ==
    /\ rp_tags = <<>>
    /\ rp_configs = <<>>
    /\ rp_result = None
    /\ rp_pc = "idle"

ResolveInit ==
    /\ rp_tags \in TagLists
    /\ rp_configs \in ConfigLists
    /\ rp_result = None
    /\ rp_pc = "call"

ResolveCall ==
    /\ rp_pc = "call"
    /\ rp_result' = resolve_project_config(rp_tags, rp_configs)
    /\ rp_pc' = "done"
    /\ UNCHANGED <<rp_tags, rp_configs, roundVars, buildVars, callVars>>

(***************************************************************************)
(* Specification of billable_minutes_from_raw_seconds on bounded inputs    *)
(***************************************************************************)
MaxRawSeconds == 1900

\* Multipliers 0.5, 1, 1.5, 2, 3 as num/den.
Multipliers ==
    {[num |-> 1, den |-> 2], [num |-> 1, den |-> 1], [num |-> 3, den |-> 2],
     [num |-> 2, den |-> 1], [num |-> 3, den |-> 1]}

RoundIdle ==
    /\ rd_raw = 0
    /\ rd_mult = [num |-> 1, den |-> 1]
    /\ rd_minutes = 0
    /\ rd_pc = "idle"

RoundInit ==
    /\ rd_raw \in 0..MaxRawSeconds
    /\ rd_mult \in Multipliers
    /\ rd_minutes = 0
    /\ rd_pc = "call"

RoundCall ==
    /\ rd_pc = "call"
    /\ rd_minutes' = billable_minutes_from_raw_seconds(rd_raw, rd_mult)
    /\ rd_pc' = "done"
    /\ UNCHANGED <<rd_raw, rd_mult, resolveVars, buildVars, callVars>>

(***************************************************************************)
(* Specification of build_dynamics_records_with_absorption_report          *)
(***************************************************************************)
\* Number of intervals in the export.
MaxEntries == 3

\* The project configuration file.
ProjectConfigs ==
    << [timew_tags |-> {<<"dev">>},
        project |-> <<"Alpha">>, project_id |-> <<"P1">>,
        project_task |-> <<"Dev">>, project_task_id |-> <<"T1">>,
        role |-> <<"Eng">>],
       [timew_tags |-> {<<"dev">>, <<"review">>},
        project |-> <<"Alpha">>, project_id |-> <<"P1">>,
        project_task |-> <<"Dev">>, project_task_id |-> <<"T1">>,
        role |-> <<"Eng">>, merge_on_equal_tags |-> TRUE],
       [timew_tags |-> {<<"ops">>},
        project |-> <<"Alpha">>, project_id |-> <<"P2">>,
        project_task |-> <<"Dev">>, project_task_id |-> <<"T2">>,
        role |-> <<"Eng">>],
       [timew_tags |-> {<<"admin">>},
        project |-> <<"Alpha">>, project_id |-> <<"P1">>,
        project_task |-> <<"Dev">>, project_task_id |-> <<"T1">>,
        role |-> <<"Eng">>, type |-> <<"Admin">>, external_comment |-> <<"overhead">>,
        multiplier |-> [num |-> 2, den |-> 1]],
       [timew_tags |-> {<<"dev">>, <<"hot">>},
        project |-> <<"Alpha">>, project_id |-> <<"P1">>,
        project_task |-> <<"Dev">>, project_task_id |-> <<"T1">>,
        role |-> <<"Eng">>, multiplier |-> [num |-> 3, den |-> 2],
        description_prefix |-> <<"T">>],
       [timew_tags |-> {<<"dev">>, <<"alt">>},
        project |-> <<"Alpha">>, project_id |-> <<"P1">>,
        project_task |-> <<"Dev">>, project_task_id |-> <<"T1">>,
        role |-> <<"Eng">>, annotation_delimiter |-> <<"|">>,
        annotation_output_separator |-> <<",">>] >>

\* The run configurations: (DynamicsConfig, merge_on_display_values,
\* include_format_in_merge).  The first is the call of dynamics_csv.main.
RunConfigs ==
    { [config |-> [annotation_delimiter_override |-> NoStr,
                   annotation_output_separator_override |-> NoStr,
                   exclude_tags |-> {<<"skip">>},
                   absorb_tag |-> <<"admin">>],
       merge_on_display_values |-> FALSE, include_format_in_merge |-> TRUE],
      [config |-> [annotation_delimiter_override |-> NoStr,
                   annotation_output_separator_override |-> NoStr,
                   exclude_tags |-> {},
                   absorb_tag |-> NoStr],
       merge_on_display_values |-> TRUE, include_format_in_merge |-> FALSE] }

\* Start of local day d plus an offset, in seconds.
At(day, offset) == day * 86400 + offset

\* An ended interval of the export.
Interval(day, seconds, tags, annotation) ==
    [start |-> At(day, 3600), end |-> At(day, 3600) + seconds,
     tags |-> tags, annotation |-> annotation]

\* The intervals an export is made of.
Entries ==
    { Interval(1, 300, <<<<"dev">>>>, <<"T", ";", " ", "a">>),
      Interval(1, 1000, <<<<"dev">>>>, <<"T", ";", " ", "b">>),
      Interval(1, 300, <<<<"dev">>>>, <<"T">>),
      Interval(1, 300, <<<<"dev">>>>, <<"U">>),
      Interval(2, 300, <<<<"dev">>>>, <<"T", ";", " ", "a">>),
      Interval(1, 300, <<<<"dev">>>>, <<"L", "a">>),
      Interval(1, 1000, <<<<"dev">>, <<"review">>>>, <<"U">>),
      Interval(1, 300, <<<<"review">>, <<"dev">>>>, <<"L">>),
      Interval(1, 1000, <<<<"ops">>>>, <<"T", ";", " ", "b">>),
      Interval(1, 1000, <<<<"admin">>>>, <<"U">>),
      Interval(1, 300, <<<<"admin">>>>, <<"T">>),
      Interval(2, 300, <<<<"admin">>>>, <<"U">>),
      Interval(1, 1000, <<<<"dev">>, <<"hot">>>>, <<"a">>),
      Interval(1, 300, <<<<"dev">>, <<"alt">>>>, <<"T", "|", "b">>),
      Interval(1, 300, <<<<"dev">>, <<"skip">>>>, <<"T", ";", " ", "a">>),
      [start |-> At(1, 7200), tags |-> <<<<"dev">>>>, annotation |-> <<"U">>] }

\* No merge_drafts call was made for the last interval read.
NoCall == [called |-> FALSE]

BuildIdle ==
    /\ dyn_config = [none |-> TRUE]
    /\ on_display_values = FALSE
    /\ format_in_merge = FALSE
    /\ timew_entries = <<>>
    /\ draft_list = <<>>
    /\ next_sequence = 0
    /\ absorption_report = <<>>
    /\ records = <<>>
    /\ pc = "idle"
    /\ merge_call = NoCall
    /\ merged_into = <<>>
    /\ drafts_merged = <<>>

BuildInit ==
    /\ \E run \in RunConfigs :
          /\ dyn_config = run.config
          /\ on_display_values = run.merge_on_display_values
          /\ format_in_merge = run.include_format_in_merge
    /\ timew_entries = <<>>
    /\ draft_list = <<>>
    /\ next_sequence = 0
    /\ absorption_report = <<>>
    /\ records = <<>>
    /\ pc = "loop"
    /\ merge_call = NoCall
    /\ merged_into = <<>>
    /\ drafts_merged = <<>>

\* One iteration of the loop over timew_entries, for the next interval of the
\* export: skip it, or build its draft and merge it into draft_list.
ProcessEntry(timew_entry) ==
    /\ pc = "loop"
    /\ Len(timew_entries) < MaxEntries
    /\ timew_entries' = Append(timew_entries, timew_entry)
    /\ IF "end" \notin DOMAIN timew_entry
          \/ has_excluded_tags(Get(timew_entry, "tags", <<>>), dyn_config.exclude_tags)
       THEN /\ merge_call' = NoCall
            /\ UNCHANGED <<draft_list, next_sequence, merged_into>>
       ELSE LET tags == Get(timew_entry, "tags", <<>>)
                project_config == resolve_project_config(tags, ProjectConfigs)
                built == build_dynamics_draft(timew_entry, project_config, dyn_config, next_sequence)
                merged == merge_drafts(draft_list, built.draft, built.merge_on_equal_tags,
                                       on_display_values, format_in_merge)
                position == Len(timew_entries) + 1
            IN /\ draft_list' = merged.drafts
               /\ next_sequence' = next_sequence + 1
               /\ merge_call' = [called |-> TRUE,
                                 drafts |-> draft_list,
                                 new_draft |-> built.draft,
                                 merge_on_equal_tags |-> built.merge_on_equal_tags]
               /\ merged_into' =
                     IF merged.target = 0
                     THEN Append(merged_into, <<position>>)
                     ELSE Append([merged_into EXCEPT
                                     ![draft_list[merged.target].sequence + 1] =
                                         Append(@, position)],
                                 <<>>)
    /\ UNCHANGED <<dyn_config, on_display_values, format_in_merge,
                   absorption_report, records, pc, drafts_merged, resolveVars, roundVars,
                   callVars>>

\* The export is read: absorption when an absorb tag is configured, then
\* finalization of every draft.
Finish ==
    /\ pc = "loop"
    /\ LET absorbed ==
               IF StrTruthy(dyn_config.absorb_tag)
               THEN apply_absorption(draft_list, dyn_config.absorb_tag)
               ELSE [updated |-> draft_list, reports |-> <<>>]
       IN /\ draft_list' = absorbed.updated
          /\ absorption_report' = absorbed.reports
          /\ records' = [i \in 1..Len(absorbed.updated) |-> finalize_draft(absorbed.updated[i])]
    /\ drafts_merged' = draft_list
    /\ pc' = "done"
    /\ UNCHANGED <<dyn_config, on_display_values, format_in_merge, timew_entries,
                   next_sequence, merge_call, merged_into, resolveVars, roundVars,
                   callVars>>

Next ==
    \/ \E timew_entry \in Entries : ProcessEntry(timew_entry)
    \/ Finish

\* A function that is not called.
NotCalled == [pc |-> "idle"]

\* None of the functions specified on their own is called, but the named one.
CallsIdleExcept(name) ==
    /\ IF name = "commute" THEN TRUE ELSE commute_call = NotCalled
    /\ IF name = "annotations" THEN TRUE ELSE annotations_call = NotCalled
    /\ IF name = "draft" THEN TRUE ELSE draft_call = NotCalled
    /\ IF name = "value" THEN TRUE ELSE value_call = NotCalled
    /\ IF name = "refine" THEN TRUE ELSE refine_call = NotCalled
    /\ IF name = "overtime" THEN TRUE ELSE overtime_call = NotCalled
    /\ IF name = "allocate" THEN TRUE ELSE allocate_call = NotCalled

\* A call of the named function leaves the arguments and results of the others.
CallsUnchangedExcept(name) ==
    /\ IF name = "commute" THEN TRUE ELSE UNCHANGED commute_call
    /\ IF name = "annotations" THEN TRUE ELSE UNCHANGED annotations_call
    /\ IF name = "draft" THEN TRUE ELSE UNCHANGED draft_call
    /\ IF name = "value" THEN TRUE ELSE UNCHANGED value_call
    /\ IF name = "refine" THEN TRUE ELSE UNCHANGED refine_call
    /\ IF name = "overtime" THEN TRUE ELSE UNCHANGED overtime_call
    /\ IF name = "allocate" THEN TRUE ELSE UNCHANGED allocate_call

Init == BuildInit /\ ResolveIdle /\ RoundIdle /\ CallsIdleExcept("none")

Spec == Init /\ [][Next]_vars

InitResolve == ResolveInit /\ RoundIdle /\ BuildIdle /\ CallsIdleExcept("none")

SpecResolve == InitResolve /\ [][ResolveCall]_vars

InitRound == RoundInit /\ ResolveIdle /\ BuildIdle /\ CallsIdleExcept("none")

SpecRound == InitRound /\ [][RoundCall]_vars

(***************************************************************************)
(* Specification of the loop of                                            *)
(* build_dynamics_records_with_absorption_report on two intervals, in both *)
(* orders                                                                  *)
(***************************************************************************)
\* The loop over the intervals `entries`: the draft list it leaves.
RECURSIVE BuildDrafts(_, _, _, _)
BuildDrafts(entries, run, drafts, sequence) ==
    IF entries = <<>> THEN drafts
    ELSE LET timew_entry == Head(entries)
             tags == Get(timew_entry, "tags", <<>>)
         IN IF "end" \notin DOMAIN timew_entry
               \/ has_excluded_tags(tags, run.config.exclude_tags)
            THEN BuildDrafts(Tail(entries), run, drafts, sequence)
            ELSE LET project_config == resolve_project_config(tags, ProjectConfigs)
                     built == build_dynamics_draft(timew_entry, project_config,
                                                   run.config, sequence)
                     merged == merge_drafts(drafts, built.draft, built.merge_on_equal_tags,
                                            run.merge_on_display_values,
                                            run.include_format_in_merge)
                 IN BuildDrafts(Tail(entries), run, merged.drafts, sequence + 1)

\* The intervals the loop of the run does not skip.
ProcessedEntries(run) ==
    {timew_entry \in Entries :
        /\ "end" \in DOMAIN timew_entry
        /\ ~has_excluded_tags(Get(timew_entry, "tags", <<>>), run.config.exclude_tags)}

CommuteInit ==
    \E run \in RunConfigs :
        \E first, second \in ProcessedEntries(run) :
            commute_call = [pc |-> "call", run |-> run, first |-> first, second |-> second]

CommuteCall ==
    /\ commute_call.pc = "call"
    /\ commute_call' =
           [pc |-> "done",
            run |-> commute_call.run,
            first |-> commute_call.first,
            second |-> commute_call.second,
            first_then_second |->
                BuildDrafts(<<commute_call.first, commute_call.second>>,
                            commute_call.run, <<>>, 0),
            second_then_first |->
                BuildDrafts(<<commute_call.second, commute_call.first>>,
                            commute_call.run, <<>>, 0)]
    /\ UNCHANGED <<resolveVars, roundVars, buildVars>>
    /\ CallsUnchangedExcept("commute")

InitCommute ==
    CommuteInit /\ ResolveIdle /\ RoundIdle /\ BuildIdle /\ CallsIdleExcept("commute")

SpecCommute == InitCommute /\ [][CommuteCall]_vars

(***************************************************************************)
(* Specification of merge_annotations on bounded inputs                    *)
(***************************************************************************)
MaxExistingLen == 3
MaxAdditionLen == 2

\* The characters of the annotations.
AnnotationAtoms == {"a", ";", " ", "-"}

\* Strings of at most n characters.
AnnotationTexts(n) == UNION {[1..k -> AnnotationAtoms] : k \in 0..n}

\* Annotation delimiters: the default "; ", and ";" and "--".
AnnotationDelimiters == {DEFAULT_ANNOTATION_DELIMITER, <<";">>, <<"-", "-">>}

AnnotationsInit ==
    \E existing \in AnnotationTexts(MaxExistingLen) :
        \E addition \in AnnotationTexts(MaxAdditionLen) :
            \E delimiter \in AnnotationDelimiters :
                annotations_call = [pc |-> "call", existing |-> existing,
                                    addition |-> addition, delimiter |-> delimiter]

\* merge_annotations(existing, addition, delimiter), then the call repeated on
\* its result, and merge_annotations(existing, existing, delimiter).
AnnotationsCall ==
    /\ annotations_call.pc = "call"
    /\ LET existing == annotations_call.existing
           addition == annotations_call.addition
           delimiter == annotations_call.delimiter
           merged == merge_annotations(existing, addition, delimiter)
       IN annotations_call' =
              [pc |-> "done", existing |-> existing, addition |-> addition,
               delimiter |-> delimiter,
               merged |-> merged,
               merged_again |-> merge_annotations(merged, addition, delimiter),
               merged_with_itself |-> merge_annotations(existing, existing, delimiter)]
    /\ UNCHANGED <<resolveVars, roundVars, buildVars>>
    /\ CallsUnchangedExcept("annotations")

InitAnnotations ==
    AnnotationsInit /\ ResolveIdle /\ RoundIdle /\ BuildIdle /\ CallsIdleExcept("annotations")

SpecAnnotations == InitAnnotations /\ [][AnnotationsCall]_vars

(***************************************************************************)
(* Specification of build_dynamics_draft on bounded inputs                 *)
(***************************************************************************)
\* A key the project configuration object does not have.
Absent == <<"<absent>">>

\* The object with the key set to the value, or without the key.
WithKey(object, key, value) ==
    IF value = Absent THEN object ELSE (key :> value) @@ object

\* Run-level overrides: none, empty, a delimiter or separator of its own.
DelimiterOverrides == {NoStr, <<>>, <<"/">>}
SeparatorOverrides == {NoStr, <<>>, <<"+">>}

\* Values of the project configuration: no key, null, empty, a value.
ProjectDelimiters == {Absent, NoStr, <<>>, <<"|">>}
ProjectSeparators == {Absent, NoStr, <<>>, <<",">>}
ProjectPrefixes == {Absent, <<"T">>}

DraftInit ==
    \E delimiter_override \in DelimiterOverrides, separator_override \in SeparatorOverrides :
        \E delimiter \in ProjectDelimiters, separator \in ProjectSeparators :
            \E prefix \in ProjectPrefixes :
                draft_call =
                    [pc |-> "call",
                     timew_entry |-> Interval(1, 300, <<<<"dev">>>>, <<"a">>),
                     project_config |->
                         WithKey(WithKey(WithKey(ProjectConfigs[1],
                                                 "annotation_delimiter", delimiter),
                                         "annotation_output_separator", separator),
                                 "description_prefix", prefix),
                     config |-> [annotation_delimiter_override |-> delimiter_override,
                                 annotation_output_separator_override |-> separator_override,
                                 exclude_tags |-> {},
                                 absorb_tag |-> NoStr]]

DraftCall ==
    /\ draft_call.pc = "call"
    /\ draft_call' =
           [pc |-> "done",
            timew_entry |-> draft_call.timew_entry,
            project_config |-> draft_call.project_config,
            config |-> draft_call.config,
            draft |-> build_dynamics_draft(draft_call.timew_entry, draft_call.project_config,
                                           draft_call.config, 0).draft]
    /\ UNCHANGED <<resolveVars, roundVars, buildVars>>
    /\ CallsUnchangedExcept("draft")

InitDraft == DraftInit /\ ResolveIdle /\ RoundIdle /\ BuildIdle /\ CallsIdleExcept("draft")

SpecDraft == InitDraft /\ [][DraftCall]_vars

(***************************************************************************)
(* Configuration values: _resolve_value and _resolve_override_value.       *)
(* (The functions carry the names of the source without the leading "_".)  *)
(***************************************************************************)
CONFIG_FILE_KEY == <<"reports", ".", "dynamics", ".", "config_file">>
EXCLUDE_TAGS_KEY == <<"reports", ".", "dynamics", ".", "exclude_tags">>
DEFAULT_CONFIG_FILENAME == <<".dynamics_config.json">>

\* str.upper() of a word of a key
UpperAtom(atom) ==
    CASE atom = "reports" -> "REPORTS"
      [] atom = "dynamics" -> "DYNAMICS"
      [] atom = "config_file" -> "CONFIG_FILE"
      [] atom = "exclude_tags" -> "EXCLUDE_TAGS"
      [] OTHER -> atom

\* "TIMEWARRIOR_" + header_key.upper().replace(".", "_")
env_key_for_header(header_key) ==
    <<"TIMEWARRIOR_">>
        \o [i \in 1..Len(header_key) |->
               IF header_key[i] = "." THEN "_" ELSE UpperAtom(header_key[i])]

\* str.strip(): without the blanks at both ends
RECURSIVE StripLeft(_)
StripLeft(text) ==
    IF text # <<>> /\ Head(text) = " " THEN StripLeft(Tail(text)) ELSE text

RECURSIVE StripRight(_)
StripRight(text) ==
    IF text # <<>> /\ text[Len(text)] = " "
    THEN StripRight(SubSeq(text, 1, Len(text) - 1))
    ELSE text

Strip(text) == StripRight(StripLeft(text))

get_header_value(header, key) ==
    IF key \notin DOMAIN header THEN NoStr ELSE Strip(header[key])

\* os.getenv(env_key), stripped
get_env_value(environ, key) ==
    LET env_key == env_key_for_header(key)
    IN IF env_key \notin DOMAIN environ THEN NoStr ELSE Strip(environ[env_key])

\* _resolve_value with the header's value put above the environment's
resolve_value_header_first(header, environ, key, default) ==
    IF get_header_value(header, key) # NoStr THEN get_header_value(header, key)
    ELSE IF get_env_value(environ, key) # NoStr THEN get_env_value(environ, key)
    ELSE default

\* _resolve_value: the default, replaced by the header's value if there is
\* one, replaced by the environment's value if there is one.
resolve_value(header, environ, key, default) ==
    LET header_value == get_header_value(header, key)
        value_after_header == IF header_value # NoStr THEN header_value ELSE default
        env_value == get_env_value(environ, key)
    IN IF env_value # NoStr THEN env_value ELSE value_after_header

resolve_override_value(header, environ, key) ==
    LET env_value == get_env_value(environ, key)
        header_value == get_header_value(header, key)
    IN IF env_value # NoStr THEN env_value
       ELSE IF header_value # NoStr THEN header_value
       ELSE NoStr

(***************************************************************************)
(* Specification of _resolve_value on bounded inputs                       *)
(***************************************************************************)
ValueKeys == {CONFIG_FILE_KEY, EXCLUDE_TAGS_KEY}

\* The default resolve_report_config passes for the key.
DefaultOf(key) == IF key = CONFIG_FILE_KEY THEN DEFAULT_CONFIG_FILENAME ELSE <<>>

HeaderValues == {<<>>, <<"h">>, <<" ", "g", " ">>}
EnvValues == {<<>>, <<"e">>, <<" ", "f", " ">>}

\* Report headers and environments: some of the keys, each with a value.
Headers == UNION {[keys -> HeaderValues] : keys \in SUBSET ValueKeys}
Environs ==
    UNION {[keys -> EnvValues] : keys \in SUBSET {env_key_for_header(key) : key \in ValueKeys}}

ValueInit ==
    \E header \in Headers, environ \in Environs, key \in ValueKeys :
        value_call = [pc |-> "call", header |-> header, environ |-> environ, key |-> key]

ValueCall ==
    /\ value_call.pc = "call"
    /\ value_call' =
           [pc |-> "done",
            header |-> value_call.header,
            environ |-> value_call.environ,
            key |-> value_call.key,
            value |-> resolve_value(value_call.header, value_call.environ, value_call.key,
                                    DefaultOf(value_call.key)),
            override |-> resolve_override_value(value_call.header, value_call.environ,
                                                value_call.key)]
    /\ UNCHANGED <<resolveVars, roundVars, buildVars>>
    /\ CallsUnchangedExcept("value")

InitValue == ValueInit /\ ResolveIdle /\ RoundIdle /\ BuildIdle /\ CallsIdleExcept("value")

SpecValue == InitValue /\ [][ValueCall]_vars

(***************************************************************************)
(* LLMRefiner: refine, _build_prompt and _call_model.  The answer of the   *)
(* external service is an input of each call.                              *)
(***************************************************************************)
DEFAULT_LLM_ENDPOINT == <<"http://127.0.0.1:11434/api/generate">>
DEFAULT_OPENAI_ENDPOINT == <<"https://api.openai.com/v1/chat/completions">>
DEFAULT_LLM_MODEL == <<"llama3">>
DEFAULT_OPENAI_MODEL == <<"gpt-4o-mini">>
DEFAULT_LLM_TEMPERATURE == [num |-> 1, den |-> 5]
DEFAULT_LLM_TIMEOUT == [num |-> 2, den |-> 1]
SYSTEM_PROMPT == <<"You rewrite time tracking descriptions ... respond with JSON only.">>

Ollama == <<"ollama">>
OpenAI == <<"openai">>

\* {}
EmptyDict == [key \in {} |-> NoStr]

\* The marker "++" at both ends of a hidden segment.
HiddenMarker == <<"+", "+">>

\* segment.startswith("++") and segment.endswith("++")
IsHidden(segment) ==
    /\ Len(segment) >= Len(HiddenMarker)
    /\ MatchesAt(segment, 1, HiddenMarker)
    /\ MatchesAt(segment, Len(segment) - Len(HiddenMarker) + 1, HiddenMarker)

\* [description] if not delimiter else description.split(delimiter)
Segments(description, delimiter) ==
    IF StrTruthy(delimiter) THEN Split(description, delimiter) ELSE <<description>>

HiddenMask(segments) == [i \in 1..Len(segments) |-> IsHidden(segments[i])]

\* The segments that are not hidden, each stripped.
VisibleSegments(segments) ==
    LET shown == SelectSeq(segments, LAMBDA segment : ~IsHidden(segment))
    IN [i \in 1..Len(shown) |-> Strip(shown[i])]

\* The settings of one call: the overrides over the refiner's own, the
\* provider normalised, endpoint and model defaulted per provider.
EffectiveSettings(self, overrides) ==
    LET given == IF Truthy(overrides) THEN overrides ELSE EmptyDict
        requested == Strip(Get(given, "provider", self.provider))
        provider == IF requested \in {Ollama, OpenAI} THEN requested ELSE self.provider
        endpoint == Get(given, "endpoint", self.endpoint)
        model == Get(given, "model", self.model)
    IN [override_enabled_is_false |-> "enabled" \in DOMAIN given /\ given["enabled"] = FALSE,
        provider |-> provider,
        endpoint |-> IF StrTruthy(endpoint) THEN endpoint
                     ELSE IF provider = OpenAI THEN DEFAULT_OPENAI_ENDPOINT
                     ELSE DEFAULT_LLM_ENDPOINT,
        model |-> IF StrTruthy(model) THEN model
                  ELSE IF provider = OpenAI THEN DEFAULT_OPENAI_MODEL
                  ELSE DEFAULT_LLM_MODEL,
        temperature |-> Get(given, "temperature", self.temperature),
        timeout |-> Get(given, "timeout", self.timeout),
        api_key |-> Get(given, "api_key", self.api_key)]

\* The (key, value) pairs of the context whose value is truthy.
ContextItems(context) == SelectSeq(context, LAMBDA item : StrTruthy(item[2]))

\* key.title() of a key of the context
Title(key) ==
    CASE key = "date" -> "Date"
      [] key = "project" -> "Project"
      [] key = "role" -> "Role"
      [] OTHER -> key

\* "Title: value" for each item of the context with a value
ContextLines(context) ==
    [i \in 1..Len(ContextItems(context)) |->
        <<Title(ContextItems(context)[i][1]), ContextItems(context)[i][2]>>]

\* The prompt is a fixed text around these parts.
build_prompt(description, segments, delimiter, output_separator, context) ==
    [count |-> Len(segments),
     delimiter |-> IF StrTruthy(delimiter) THEN delimiter ELSE <<"[none]">>,
     output_separator |-> output_separator,
     context_block |-> IF ContextLines(context) # <<>> THEN ContextLines(context)
                       ELSE <<"None">>,
     description |-> description,
     segments_json |-> segments]

\* The request body for the provider.
RequestPayload(settings, prompt) ==
    IF settings.provider = OpenAI
    THEN [model |-> settings.model,
          messages |-> <<[role |-> "system", content |-> [text |-> SYSTEM_PROMPT]],
                         [role |-> "user", content |-> prompt]>>,
          temperature |-> settings.temperature]
    ELSE [model |-> settings.model,
          prompt |-> prompt,
          system |-> SYSTEM_PROMPT,
          stream |-> FALSE,
          options |-> [temperature |-> settings.temperature]]

\* JSON values, by the type isinstance() sees.
JStr(text) == [type |-> "str", value |-> text]
JList(items) == [type |-> "list", value |-> items]
JDict(fields) == [type |-> "dict", value |-> fields]
JNumber == [type |-> "number"]
JAbsent == [type |-> "absent"]
NotJson == [type |-> "invalid"]

\* The JSON scalars of the model's answers, and str(item) of each.
JsonScalars == {"\"x\"", "\"y\"", "\" \"", "\"x; y\"", "7"}

ItemText(scalar) ==
    CASE scalar = "\"x\"" -> <<"x">>
      [] scalar = "\"y\"" -> <<"y">>
      [] scalar = "\" \"" -> <<" ">>
      [] scalar = "\"x; y\"" -> <<"x", ";", " ", "y">>
      [] OTHER -> <<scalar>>

\* json.loads(text): an array of scalars, an object, a scalar, or no JSON.
json_loads(text) ==
    IF text = <<>> THEN NotJson
    ELSE IF Head(text) = "[" /\ text[Len(text)] = "]" /\ Len(text) >= 2
    THEN LET inside == Strip(SubSeq(text, 2, Len(text) - 1))
             parts == Split(inside, <<",">>)
         IN IF inside = <<>> THEN JList(<<>>)
            ELSE IF \A i \in 1..Len(parts) : Len(parts[i]) = 1 /\ parts[i][1] \in JsonScalars
            THEN JList([i \in 1..Len(parts) |-> parts[i][1]])
            ELSE NotJson
    ELSE IF text = <<"{", "}">> THEN JDict(EmptyDict)
    ELSE IF Len(text) = 1 /\ text[1] \in JsonScalars THEN JNumber
    ELSE NotJson

\* The text the provider's answer carries, or a value that is not a str.
ModelOutput(response_json, provider) ==
    IF provider = OpenAI
    THEN LET choices == Get(response_json.value, "choices", JAbsent)
         IN IF choices.type # "list" \/ choices.value = <<>> THEN JAbsent
            ELSE IF choices.value[1].type # "dict" THEN JAbsent
            ELSE LET message == Get(choices.value[1].value, "message", JAbsent)
                 IN IF message.type # "dict" THEN JAbsent
                    ELSE Get(message.value, "content", JStr(<<>>))
    ELSE Get(response_json.value, "response", JAbsent)

\* _call_model: the exception it raises, or what it returns: None or a list of str.
call_model(response, provider) ==
    IF response.status # "ok" THEN [raises |-> response.status]
    ELSE IF response.json.type = "invalid" THEN [raises |-> "RuntimeError"]
    ELSE IF response.json.type # "dict" THEN [raises |-> "AttributeError"]
    ELSE LET output == ModelOutput(response.json, provider)
             parsed == json_loads(Strip(output.value))
         IN IF output.type # "str" THEN [raises |-> "none", is_none |-> TRUE]
            ELSE IF parsed.type # "list" THEN [raises |-> "none", is_none |-> TRUE]
            ELSE [raises |-> "none",
                  is_none |-> FALSE,
                  segments |-> [i \in 1..Len(parsed.value) |-> ItemText(parsed.value[i])]]

\* except Exception: URLError, socket.timeout, RuntimeError and AttributeError
\* are all exceptions.
CaughtOnlyNetworkErrors(exception) == exception \in {"URLError", "socket.timeout"}

Caught(exception) ==
    exception \in {"URLError", "socket.timeout", "RuntimeError", "AttributeError"}

\* The segments in their places: a hidden one as it was, a visible one replaced
\* by its stripped candidate, or by itself stripped when the candidate is blank.
\* (Every candidate is a str: _call_model returns str(item) for each item.)
RECURSIVE Reconstruct(_, _, _)
Reconstruct(hidden_mask, segments, candidates) ==
    IF segments = <<>> THEN <<>>
    ELSE IF Head(hidden_mask)
    THEN <<Head(segments)>> \o Reconstruct(Tail(hidden_mask), Tail(segments), candidates)
    ELSE LET cleaned == Strip(Head(candidates))
         IN <<IF cleaned = <<>> THEN Strip(Head(segments)) ELSE cleaned>>
                \o Reconstruct(Tail(hidden_mask), Tail(segments), Tail(candidates))

CacheKey(description, delimiter, output_separator, settings, context, visible_segments) ==
    <<description, delimiter, output_separator, settings.model, settings.temperature,
      settings.provider, settings.endpoint, ContextItems(context), visible_segments>>

NoPayload == None

\* refine returns the description before it looks into the cache: the refiner
\* or the override is disabled, model, endpoint or key is missing, or no
\* segment is visible.
ReturnsEarly(self, settings, visible_segments) ==
    \/ ~self.enabled
    \/ settings.override_enabled_is_false
    \/ ~StrTruthy(settings.model) \/ ~StrTruthy(settings.endpoint)
    \/ settings.provider = OpenAI /\ ~StrTruthy(settings.api_key)
    \/ visible_segments = <<>>

\* The payload refine hands to _call_model, NoPayload when it returns before.
RequestOf(self, cache, description, delimiter, output_separator, context, overrides) ==
    LET settings == EffectiveSettings(self, overrides)
        separator == IF StrTruthy(delimiter) THEN delimiter ELSE <<>>
        visible_segments == VisibleSegments(Segments(description, separator))
        cache_key == CacheKey(description, separator, output_separator, settings, context,
                              visible_segments)
    IN IF ReturnsEarly(self, settings, visible_segments) THEN NoPayload
       ELSE IF cache_key \in DOMAIN cache THEN NoPayload
       ELSE RequestPayload(settings,
                build_prompt(description, visible_segments, separator, output_separator,
                             context))

\* refine: what it returns, what it raises, and the cache afterwards.
Refine(self, cache, description, delimiter, output_separator, context, overrides, response) ==
    LET settings == EffectiveSettings(self, overrides)
        separator == IF StrTruthy(delimiter) THEN delimiter ELSE <<>>
        segments == Segments(description, separator)
        visible_segments == VisibleSegments(segments)
        cache_key == CacheKey(description, separator, output_separator, settings, context,
                              visible_segments)
        answer == call_model(response, settings.provider)
        reconstructed == Reconstruct(HiddenMask(segments), segments, answer.segments)
        refined_description ==
            IF StrTruthy(separator) THEN Join(reconstructed, separator) ELSE reconstructed[1]
        Return(value) == [returns |-> value, raises |-> "none", cache |-> cache]
    IN IF ReturnsEarly(self, settings, visible_segments) THEN Return(description)
       ELSE IF cache_key \in DOMAIN cache THEN Return(cache[cache_key])
       ELSE IF answer.raises # "none"
       THEN IF Caught(answer.raises) THEN Return(description)
            ELSE [returns |-> NoStr, raises |-> answer.raises, cache |-> cache]
       ELSE IF answer.is_none \/ Len(answer.segments) # Len(visible_segments)
       THEN Return(description)
       ELSE [returns |-> refined_description,
             raises |-> "none",
             cache |-> (cache_key :> refined_description) @@ cache]

\* Largest number of calls of refine on one refiner.
MaxRefineCalls == 2

\* LLMRefiner.from_config(_resolve_llm_config(header)): endpoint and model are
\* never empty, the provider is one of the two, an empty key is None.
Refiners ==
    {[enabled |-> enabled,
      provider |-> provider,
      endpoint |-> IF provider = OpenAI THEN DEFAULT_OPENAI_ENDPOINT ELSE DEFAULT_LLM_ENDPOINT,
      model |-> IF provider = OpenAI THEN DEFAULT_OPENAI_MODEL ELSE DEFAULT_LLM_MODEL,
      temperature |-> DEFAULT_LLM_TEMPERATURE,
      timeout |-> DEFAULT_LLM_TIMEOUT,
      api_key |-> api_key] :
        enabled \in BOOLEAN, provider \in {Ollama, OpenAI}, api_key \in {NoStr, <<"k">>}}

\* "a ; ++s++", "a ; ++t++", "++s++"
RefineDescriptions ==
    {<<"a", " ", ";", " ", "+", "+", "s", "+", "+">>,
     <<"a", " ", ";", " ", "+", "+", "t", "+", "+">>,
     <<"+", "+", "s", "+", "+">>}

\* A record's annotation_delimiter is never empty.
RefineDelimiters == {DEFAULT_ANNOTATION_DELIMITER}

\* The context of a record, in the order of the caller's dict; the role is empty.
RefineContext ==
    <<<<"date", <<"2024-01-01">>>>, <<"project", <<"P">>>>, <<"role", <<>>>>>>

\* The llm_settings of a record.
RefineOverrides == {None, [enabled |-> FALSE], [provider |-> OpenAI]}

\* The texts the model answers with.
ModelOutputs ==
    {<<"sorry">>,
     <<"{", "}">>,
     <<"[", "]">>,
     <<"[", "\"x\"", "]">>,
     <<" ", "[", "\" \"", "]", " ">>,
     <<"[", "\"x; y\"", "]">>,
     <<"[", "\"x\"", ",", "\"y\"", "]">>}

\* A well-formed answer carries the text where either provider looks for it.
WellFormed(output) ==
    JDict([response |-> JStr(output),
           choices |-> JList(<<JDict([message |-> JDict([content |-> JStr(output)])])>>)])

\* The outcomes of the request: no answer, an answer that is no JSON, JSON that
\* is no object, objects without the expected parts, and well-formed answers.
Responses ==
    {[status |-> "URLError"], [status |-> "socket.timeout"]}
        \cup {[status |-> "ok", json |-> body] :
                body \in {NotJson,
                          JList(<<>>),
                          JDict(EmptyDict),
                          JDict([response |-> JNumber,
                                 choices |-> JList(<<JDict([message |-> JDict(EmptyDict)])>>)])}
                     \cup {WellFormed(output) : output \in ModelOutputs}}

\* A refiner after construction: nothing cached.
RefineInit ==
    \E self \in Refiners :
        refine_call = [pc |-> "ready", self |-> self, cache |-> EmptyDict, calls |-> 0]

\* One call of refine.
RefineCall ==
    /\ refine_call.pc \in {"ready", "returned"}
    /\ refine_call.calls < MaxRefineCalls
    /\ \E description \in RefineDescriptions, delimiter \in RefineDelimiters,
          overrides \in RefineOverrides :
          LET self == refine_call.self
              payload == RequestOf(self, refine_call.cache, description, delimiter,
                                   DEFAULT_OUTPUT_SEPARATOR, RefineContext, overrides)
          IN \E response \in Responses :
             LET outcome == Refine(self, refine_call.cache, description, delimiter,
                                   DEFAULT_OUTPUT_SEPARATOR, RefineContext, overrides,
                                   response)
             IN refine_call' =
                 [pc |-> "returned",
                  self |-> self,
                  cache |-> outcome.cache,
                  calls |-> refine_call.calls + 1,
                  cache_before |-> refine_call.cache,
                  description |-> description,
                  delimiter |-> delimiter,
                  output_separator |-> DEFAULT_OUTPUT_SEPARATOR,
                  context |-> RefineContext,
                  overrides |-> overrides,
                  response |-> response,
                  payload |-> payload,
                  returns |-> outcome.returns,
                  raises |-> outcome.raises]
    /\ UNCHANGED <<resolveVars, roundVars, buildVars>>
    /\ CallsUnchangedExcept("refine")

InitRefine == RefineInit /\ ResolveIdle /\ RoundIdle /\ BuildIdle /\ CallsIdleExcept("refine")

SpecRefine == InitRefine /\ [][RefineCall]_vars

(***************************************************************************)
(* The overtime report (src/overtime_common.py, src/overtime_csv.py).      *)
(* A local datetime is the number of seconds since the local midnight that *)
(* begins day 0, a Monday; a date is the number of its day.  The local UTC *)
(* offset is the same for all datetimes.                                   *)
(***************************************************************************)
DEFAULT_DAILY_HOURS == 8
DEFAULT_WORK_DAYS == <<"1", ",", "2", ",", "3", ",", "4", ",", "5">>

SecondsPerHour == 3600
SecondsPerDay == 24 * SecondsPerHour

\* Optional[date]: None
NoDate == -1

\* moment.date()
DateOf(moment) == moment \div SecondsPerDay

\* current.isoweekday(): 1 is Monday
IsoWeekday(day) == (day % 7) + 1

DecimalDigits == <<"0", "1", "2", "3", "4", "5", "6", "7", "8", "9">>

IsNumber(item) ==
    item # <<>> /\ \A i \in 1..Len(item) : \E d \in 1..10 : DecimalDigits[d] = item[i]

\* int(item) of a string of digits
RECURSIVE IntOf(_)
IntOf(item) ==
    IF item = <<>> THEN 0
    ELSE 10 * IntOf(SubSeq(item, 1, Len(item) - 1))
             + (CHOOSE d \in 0..9 : DecimalDigits[d + 1] = item[Len(item)])

\* The loop of _parse_work_days over the parts of raw: the days parsed and the
\* warnings written so far.
RECURSIVE ParseParts(_, _, _)
ParseParts(parts, parsed, warnings) ==
    IF parts = <<>> THEN [parsed |-> parsed, warnings |-> warnings]
    ELSE LET item == Strip(Head(parts))
         IN IF item = <<>> THEN ParseParts(Tail(parts), parsed, warnings)
            ELSE IF ~IsNumber(item)
            THEN ParseParts(Tail(parts), parsed, Append(warnings, "Invalid WORK_DAYS entry"))
            ELSE IF IntOf(item) < 1 \/ IntOf(item) > 7
            THEN ParseParts(Tail(parts), parsed,
                            Append(warnings, "WORK_DAYS entry out of range (1-7)"))
            ELSE IF IntOf(item) \in ToSet(parsed)
            THEN ParseParts(Tail(parts), parsed, warnings)
            ELSE ParseParts(Tail(parts), Append(parsed, IntOf(item)), warnings)

\* _parse_work_days without the fallback of an input with no valid entry.
parse_work_days_as_given(value) ==
    LET given == Strip(IF value # NoStr THEN value ELSE DEFAULT_WORK_DAYS)
        raw == IF given = <<>> THEN DEFAULT_WORK_DAYS ELSE given
        empty == IF given = <<>> THEN <<"WORK_DAYS was empty. Using default work days.">>
                 ELSE <<>>
    IN ParseParts(Split(raw, <<",">>), <<>>, empty)

\* _parse_work_days(value): the work days and the warnings on standard error.
parse_work_days(value) ==
    LET given == Strip(IF value # NoStr THEN value ELSE DEFAULT_WORK_DAYS)
        raw == IF given = <<>> THEN DEFAULT_WORK_DAYS ELSE given
        empty == IF given = <<>> THEN <<"WORK_DAYS was empty. Using default work days.">>
                 ELSE <<>>
        result == ParseParts(Split(raw, <<",">>), <<>>, empty)
        defaults == ParseParts(Split(DEFAULT_WORK_DAYS, <<",">>), <<>>, <<>>)
    IN IF result.parsed = <<>>
       THEN [parsed |-> defaults.parsed,
             warnings |-> Append(result.warnings,
                                 "WORK_DAYS did not include any valid entries. Using defaults.")
                              \o defaults.warnings]
       ELSE result

\* load_config() with DAILY_HOURS not set: the configuration and the warnings.
load_config(work_days_env) ==
    [daily_hours |-> DEFAULT_DAILY_HOURS,
     work_days |-> parse_work_days(work_days_env).parsed,
     warnings |-> parse_work_days(work_days_env).warnings]

\* The while loop of build_day_segments: the pieces of one interval, cut at
\* each local midnight.
RECURSIVE SplitAtMidnight(_, _)
SplitAtMidnight(current, end_local) ==
    IF DateOf(current) < DateOf(end_local)
    THEN LET midnight == (DateOf(current) + 1) * SecondsPerDay
         IN (IF midnight > current THEN <<<<current, midnight>>>> ELSE <<>>)
                \o SplitAtMidnight(midnight, end_local)
    ELSE IF end_local > current THEN <<<<current, end_local>>>> ELSE <<>>

\* The segments of all entries, in the order build_day_segments appends them;
\* an entry without end and one that does not end after its start give none.
RECURSIVE AllSegments(_)
AllSegments(entries) ==
    IF entries = <<>> THEN <<>>
    ELSE LET entry == Head(entries)
         IN (IF "end" \notin DOMAIN entry THEN <<>>
             ELSE IF entry["end"] <= entry["start"] THEN <<>>
             ELSE SplitAtMidnight(entry["start"], entry["end"]))
                \o AllSegments(Tail(entries))

\* build_day_segments(entries)[day]; a segment belongs to the day it starts on.
build_day_segments(entries, day) ==
    SelectSeq(AllSegments(entries), LAMBDA segment : DateOf(segment[1]) = day)

\* The keys of build_day_segments(entries)
SegmentDates(entries) ==
    {DateOf(AllSegments(entries)[i][1]) : i \in 1..Len(AllSegments(entries))}

\* sorted(intervals, key=lambda pair: pair[0]): stable
RECURSIVE InsertByStart(_, _)
InsertByStart(ordered, pair) ==
    IF ordered = <<>> THEN <<pair>>
    ELSE IF pair[1] < Head(ordered)[1] THEN <<pair>> \o ordered
    ELSE <<Head(ordered)>> \o InsertByStart(Tail(ordered), pair)

RECURSIVE SortedByStart(_)
SortedByStart(intervals) ==
    IF intervals = <<>> THEN <<>>
    ELSE InsertByStart(SortedByStart(SubSeq(intervals, 1, Len(intervals) - 1)),
                       intervals[Len(intervals)])

\* The loop of _merge_intervals over the sorted intervals.
RECURSIVE MergeOrdered(_, _, _)
MergeOrdered(ordered, current_start, current_end) ==
    IF ordered = <<>> THEN <<<<current_start, current_end>>>>
    ELSE IF Head(ordered)[1] <= current_end
    THEN MergeOrdered(Tail(ordered), current_start,
                      IF Head(ordered)[2] > current_end THEN Head(ordered)[2]
                      ELSE current_end)
    ELSE <<<<current_start, current_end>>>>
             \o MergeOrdered(Tail(ordered), Head(ordered)[1], Head(ordered)[2])

merge_intervals(intervals) ==
    IF intervals = <<>> THEN <<>>
    ELSE LET ordered == SortedByStart(intervals)
         IN MergeOrdered(Tail(ordered), ordered[1][1], ordered[1][2])

sum_interval_seconds(intervals) ==
    SumSeq([i \in 1..Len(intervals) |->
               IF intervals[i][2] - intervals[i][1] > 0
               THEN intervals[i][2] - intervals[i][1] ELSE 0])

pause_seconds(merged) ==
    IF Len(merged) < 2 THEN 0
    ELSE SumSeq([index \in 1..(Len(merged) - 1) |->
                    IF merged[index + 1][1] - merged[index][2] > 0
                    THEN merged[index + 1][1] - merged[index][2] ELSE 0])

seconds_since_midnight(moment) == moment - DateOf(moment) * SecondsPerDay

to_second_of_day(day, moment) ==
    IF DateOf(moment) > day /\ seconds_since_midnight(moment) = 0 THEN 24 * SecondsPerHour
    ELSE seconds_since_midnight(moment)

SetMin(numbers) == CHOOSE n \in numbers : \A m \in numbers : n <= m
SetMax(numbers) == CHOOSE n \in numbers : \A m \in numbers : n >= m

\* The DaySummary of one day (without the labels of week and weekday), None
\* for a day with nothing done and nothing expected.
DaySummaryOf(entries, config, current) ==
    LET day_segments == build_day_segments(entries, current)
        actual == sum_interval_seconds(day_segments)
        expected == IF IsoWeekday(current) \in ToSet(config.work_days)
                    THEN config.daily_hours * SecondsPerHour ELSE 0
        merged == merge_intervals(day_segments)
    IN IF actual = 0 /\ expected = 0 THEN None
       ELSE [moment |-> current,
             has_segments |-> day_segments # <<>>,
             from_second_of_day |->
                 IF day_segments = <<>> THEN NoDate
                 ELSE seconds_since_midnight(SetMin({merged[i][1] : i \in 1..Len(merged)})),
             to_second_of_day |->
                 IF day_segments = <<>> THEN NoDate
                 ELSE to_second_of_day(current, SetMax({merged[i][2] : i \in 1..Len(merged)})),
             pause_seconds |-> IF day_segments = <<>> THEN NoDate ELSE pause_seconds(merged),
             actual_seconds |-> actual,
             expected_seconds |-> expected,
             overtime_seconds |-> actual - expected]

\* The loop over date_range: the summaries of the days from cursor to end_date.
RECURSIVE SummariesFrom(_, _, _, _)
SummariesFrom(entries, config, cursor, end_date) ==
    IF cursor > end_date THEN <<>>
    ELSE (IF DaySummaryOf(entries, config, cursor) = None THEN <<>>
          ELSE <<DaySummaryOf(entries, config, cursor)>>)
             \o SummariesFrom(entries, config, cursor + 1, end_date)

\* build_overtime_summaries: the summaries, or the exception it raises.
build_overtime_summaries(entries, config, start_date, end_date) ==
    LET dates_in_scope == SegmentDates(entries)
        first == IF dates_in_scope # {} /\ start_date = NoDate THEN SetMin(dates_in_scope)
                 ELSE start_date
        last == IF dates_in_scope # {} /\ end_date = NoDate THEN SetMax(dates_in_scope)
                ELSE end_date
    IN IF dates_in_scope = {} /\ (start_date = NoDate \/ end_date = NoDate)
       THEN [raises |-> "none", day_summaries |-> <<>>]
       ELSE IF first = NoDate \/ last = NoDate THEN [raises |-> "none", day_summaries |-> <<>>]
       ELSE IF last < first THEN [raises |-> "none", day_summaries |-> <<>>]
       ELSE IF config.work_days = <<>> THEN [raises |-> "ValueError"]
       ELSE [raises |-> "none",
             day_summaries |-> SummariesFrom(entries, config, first, last)]

\* main of the overtime report: what goes to standard error, the exit code and
\* the rows written, one for each summary.  load_config raises nothing; a
\* ValueError of build_overtime_summaries is not caught and ends the process.
OvertimeMain(work_days_env, entries, start_date, end_date) ==
    LET config == load_config(work_days_env)
        built == build_overtime_summaries(entries, config, start_date, end_date)
    IN IF built.raises # "none"
       THEN [config |-> config,
             stderr |-> Append(config.warnings, "Traceback: ValueError"),
             exit_code |-> 1,
             rows |-> <<>>]
       ELSE [config |-> config,
             stderr |-> config.warnings,
             exit_code |-> 0,
             rows |-> built.day_summaries]

\* Largest number of intervals in the export.
MaxIntervals == 2

\* The values of TIMEWARRIOR_EXT_OVERTIME_WORK_DAYS: not set, "", " ", ",",
\* "x", "0,8", "6,7", "1, 1,5", "12".
WorkDaysValues ==
    {NoStr, <<>>, <<" ">>, <<",">>, <<"x">>, <<"0", ",", "8">>, <<"6", ",", "7">>,
     <<"1", ",", " ", "1", ",", "5">>, <<"1", "2">>}

\* A moment of the week that begins with day 0.
MomentAt(day, hour) == day * SecondsPerDay + hour * SecondsPerHour

\* The intervals of the export: Friday 08-12, 10-14 (overlapping the first),
\* 14-22, 22-24 (ending at midnight), 22 to Saturday 02 (crossing midnight),
\* Friday 08 to Sunday 00 (crossing two), one that ends when it starts and one
\* that is still open.
Intervals ==
    {[start |-> MomentAt(4, 8), end |-> MomentAt(4, 12)],
     [start |-> MomentAt(4, 10), end |-> MomentAt(4, 14)],
     [start |-> MomentAt(4, 14), end |-> MomentAt(4, 22)],
     [start |-> MomentAt(4, 22), end |-> MomentAt(5, 0)],
     [start |-> MomentAt(4, 22), end |-> MomentAt(5, 2)],
     [start |-> MomentAt(4, 8), end |-> MomentAt(6, 0)],
     [start |-> MomentAt(4, 10), end |-> MomentAt(4, 10)],
     [start |-> MomentAt(4, 8)]}

Exports == UNION {[1..n -> Intervals] : n \in 0..MaxIntervals}

\* The range of the report header: none, or Friday to Sunday.
ReportRanges == {<<NoDate, NoDate>>, <<4, 6>>}

OvertimeInit ==
    \E work_days_env \in WorkDaysValues, entries \in Exports, range \in ReportRanges :
        overtime_call = [pc |-> "call", work_days_env |-> work_days_env,
                         entries |-> entries, start_date |-> range[1],
                         end_date |-> range[2]]

OvertimeCall ==
    /\ overtime_call.pc = "call"
    /\ overtime_call' =
           [pc |-> "done",
            work_days_env |-> overtime_call.work_days_env,
            entries |-> overtime_call.entries,
            start_date |-> overtime_call.start_date,
            end_date |-> overtime_call.end_date,
            result |-> OvertimeMain(overtime_call.work_days_env, overtime_call.entries,
                                    overtime_call.start_date, overtime_call.end_date)]
    /\ UNCHANGED <<resolveVars, roundVars, buildVars>>
    /\ CallsUnchangedExcept("overtime")

InitOvertime ==
    OvertimeInit /\ ResolveIdle /\ RoundIdle /\ BuildIdle /\ CallsIdleExcept("overtime")

SpecOvertime == InitOvertime /\ [][OvertimeCall]_vars

(***************************************************************************)
(* allocate_widths (summary_table_layout.py; summary_table_printer.py has  *)
(* the same function), one step for each iteration of its loops            *)
(***************************************************************************)
\* An Optional argument: None, or a value.
NoArgument == [is_none |-> TRUE]

Given(value) == [is_none |-> FALSE, value |-> value]

\* max(0, n)
AtLeastZero(n) == IF n > 0 THEN n ELSE 0

\* sum(adjusted) + separator_count
CurrentTotal(adjusted) == SumSeq(adjusted) + (Len(adjusted) - 1)

\* min_widths as given, or 1 for every column.
MinWidthsOf(min_widths, adjusted) ==
    IF min_widths.is_none THEN [i \in 1..Len(adjusted) |-> 1] ELSE min_widths.value

\* capacities, a dict over the elastic indices (columns are counted from 0).
Capacities(adjusted, min_widths, elastic_indices) ==
    [i \in ToSet(elastic_indices) |-> AtLeastZero(adjusted[i + 1] - min_widths[i + 1])]

\* shrink_order as given, or the elastic indices.
ShrinkOrderOf(shrink_order, elastic_indices) ==
    IF shrink_order.is_none THEN elastic_indices ELSE shrink_order.value

\* The condition of the while loop that shrinks.
ShrinkGoesOn(overflow, capacities, elastic_indices) ==
    overflow > 0 /\ \E k \in 1..Len(elastic_indices) : capacities[elastic_indices[k]] > 0

\* The for loop over shrink_order, one pass. capacities[i] of an index that is
\* not elastic raises KeyError.
RECURSIVE ShrinkFor(_, _)
ShrinkFor(locals, order) ==
    IF order = <<>> \/ locals.overflow <= 0 \/ locals.raised THEN locals
    ELSE LET i == Head(order)
         IN IF i \notin DOMAIN locals.capacities THEN [locals EXCEPT !.raised = TRUE]
            ELSE IF locals.capacities[i] <= 0 THEN ShrinkFor(locals, Tail(order))
            ELSE ShrinkFor([locals EXCEPT !.adjusted[i + 1] = @ - 1,
                                          !.capacities[i] = @ - 1,
                                          !.overflow = @ - 1],
                           Tail(order))

\* Largest total_width of a call.
MaxTotalWidth == 12

\* widths of the calls.
WidthsValues == {<<3, 5>>, <<1, 5>>, <<3, 5, 4>>, <<2, 2, 2>>}

\* elastic_indices of the calls, none of them empty.
ElasticValues == {<<0>>, <<1>>, <<0, 1>>, <<1, 0>>}

\* min_widths of the calls for the given widths.
MinWidthsValues(widths) ==
    {NoArgument, Given([i \in 1..Len(widths) |-> 2]), Given(widths)}

\* shrink_order of the calls: not given, empty, a part of the elastic
\* indices, all of them, and one with a column that is not elastic.
ShrinkOrderValues == {NoArgument, Given(<<>>), Given(<<0>>), Given(<<1, 0>>), Given(<<2, 0>>)}

TotalWidthValues == {NoArgument} \cup {Given(n) : n \in 1..MaxTotalWidth}

AllocateInit ==
    \E widths \in WidthsValues, elastic_indices \in ElasticValues,
       total_width \in TotalWidthValues, shrink_order \in ShrinkOrderValues :
        \E min_widths \in MinWidthsValues(widths) :
            allocate_call = [pc |-> "call", widths |-> widths,
                             elastic_indices |-> elastic_indices,
                             total_width |-> total_width, min_widths |-> min_widths,
                             shrink_order |-> shrink_order]

\* The locals of the call at one of its loops.
AllocateAt(loop, locals) ==
    [pc |-> loop, widths |-> allocate_call.widths,
     elastic_indices |-> allocate_call.elastic_indices,
     total_width |-> allocate_call.total_width, min_widths |-> allocate_call.min_widths,
     shrink_order |-> allocate_call.shrink_order, locals |-> locals]

\* The call returns the adjusted widths.
AllocateReturn(adjusted) == AllocateAt("done", [adjusted |-> adjusted])

\* extra and index before the first iteration of a while loop that widens.
WidenFrom(adjusted, extra) == AllocateAt("widen", [adjusted |-> adjusted, extra |-> extra, index |-> 0])

AllocateOthersUnchanged ==
    /\ UNCHANGED <<resolveVars, roundVars, buildVars>>
    /\ CallsUnchangedExcept("allocate")

\* From the call to the first loop, or to the return when there is none.
AllocateEnter ==
    /\ allocate_call.pc = "call"
    /\ LET adjusted == allocate_call.widths
           elastic_indices == allocate_call.elastic_indices
       IN allocate_call' =
              IF allocate_call.total_width.is_none \/ elastic_indices = <<>>
              THEN AllocateReturn(adjusted)
              ELSE LET total_width == allocate_call.total_width.value
                       min_widths == MinWidthsOf(allocate_call.min_widths, adjusted)
                       current_total == CurrentTotal(adjusted)
                   IN IF current_total = total_width THEN AllocateReturn(adjusted)
                      ELSE IF current_total < total_width
                      THEN WidenFrom(adjusted, total_width - current_total)
                      ELSE AllocateAt("shrink",
                               [adjusted |-> adjusted,
                                overflow |-> current_total - total_width,
                                capacities |-> Capacities(adjusted, min_widths, elastic_indices),
                                shrink_order |-> ShrinkOrderOf(allocate_call.shrink_order,
                                                               elastic_indices),
                                raised |-> FALSE])
    /\ AllocateOthersUnchanged

\* One iteration of a while loop that widens, or its end and the return.
WidenStep ==
    /\ allocate_call.pc = "widen"
    /\ LET locals == allocate_call.locals
           elastic_indices == allocate_call.elastic_indices
           target == elastic_indices[(locals.index % Len(elastic_indices)) + 1]
       IN allocate_call' =
              IF locals.extra > 0
              THEN AllocateAt("widen", [adjusted |-> [locals.adjusted EXCEPT ![target + 1] = @ + 1],
                                        extra |-> locals.extra - 1,
                                        index |-> locals.index + 1])
              ELSE AllocateReturn(locals.adjusted)
    /\ AllocateOthersUnchanged

\* One iteration of the while loop that shrinks: a pass of the for loop.
ShrinkPass ==
    /\ allocate_call.pc = "shrink"
    /\ ShrinkGoesOn(allocate_call.locals.overflow, allocate_call.locals.capacities,
                    allocate_call.elastic_indices)
    /\ LET locals == ShrinkFor(allocate_call.locals, allocate_call.locals.shrink_order)
       IN allocate_call' = AllocateAt(IF locals.raised THEN "raised" ELSE "shrink", locals)
    /\ AllocateOthersUnchanged

\* The end of the while loop that shrinks, and what follows it.
ShrinkEnd ==
    /\ allocate_call.pc = "shrink"
    /\ ~ShrinkGoesOn(allocate_call.locals.overflow, allocate_call.locals.capacities,
                     allocate_call.elastic_indices)
    /\ LET adjusted == allocate_call.locals.adjusted
           current_total == CurrentTotal(adjusted)
           total_width == allocate_call.total_width.value
       IN allocate_call' =
              IF current_total < total_width
              THEN WidenFrom(adjusted, total_width - current_total)
              ELSE AllocateReturn(adjusted)
    /\ AllocateOthersUnchanged

InitAllocate ==
    AllocateInit /\ ResolveIdle /\ RoundIdle /\ BuildIdle /\ CallsIdleExcept("allocate")

NextAllocate == AllocateEnter \/ WidenStep \/ ShrinkPass \/ ShrinkEnd

\* The interpreter goes on with the call as long as it has a step to take.
SpecAllocate == InitAllocate /\ [][NextAllocate]_vars /\ WF_vars(NextAllocate)

(***************************************************************************)
(* Properties of resolve_project_config                                    *)
(***************************************************************************)
Min(S) == CHOOSE x \in S : \A y \in S : x <= y

\* Positions of the configs whose tag set equals the interval's tag set.
ExactIndices ==
    {i \in 1..Len(rp_configs) : rp_configs[i].timew_tags = ToSet(rp_tags)}

\* Positions of the configs whose tag set is a strict subset of it.
CandidateIndices ==
    {i \in 1..Len(rp_configs) :
        /\ rp_configs[i].timew_tags \subseteq ToSet(rp_tags)
        /\ rp_configs[i].timew_tags # ToSet(rp_tags)}

\* Number of the interval's tags that config i does not cover.
Distance(i) == Cardinality(ToSet(rp_tags) \ rp_configs[i].timew_tags)

BestIndices ==
    {i \in CandidateIndices : \A j \in CandidateIndices : Distance(i) <= Distance(j)}

IsFallbackResult ==
    /\ DOMAIN rp_result = {"project", "project_task", "role"}
    /\ rp_result.project_task = <<"-">>
    /\ rp_result.role = <<"-">>
    /\ IF rp_tags = <<>>
       THEN rp_result.project = <<"NO TAGS DEFINED TO THIS TIME ENTRY">>
       ELSE /\ Head(rp_result.project) = "NO PROJECT FOUND FOR THESE TAGS: "
            /\ Split(Tail(rp_result.project), <<", ">>) = rp_tags

\* C1: when the config list holds a config whose tag set equals the tag set T,
\* the result is the first such config in list order, whatever strict-subset
\* candidates stand before or after it.
C1_ResolutionExactness ==
    (rp_pc = "done" /\ ExactIndices # {})
        => rp_result = rp_configs[Min(ExactIndices)]

C1_Witness ==
    /\ rp_pc = "done"
    /\ ExactIndices # {}
    /\ \E j \in CandidateIndices : j < Min(ExactIndices)
    /\ \E j \in CandidateIndices : j > Min(ExactIndices)
    /\ rp_result = rp_configs[Min(ExactIndices)]

\* C2: when no config's tag set equals T and strict-subset candidates exist,
\* the result is the candidate leaving the fewest tags of T uncovered, and of
\* several such the one that comes first in the list.
C2_ClosestCandidateFirstWins ==
    (rp_pc = "done" /\ ExactIndices = {} /\ CandidateIndices # {})
        => rp_result = rp_configs[Min(BestIndices)]

C2_Witness ==
    /\ rp_pc = "done"
    /\ ExactIndices = {}
    /\ Cardinality(BestIndices) >= 2
    /\ \E j \in CandidateIndices \ BestIndices : j < Min(BestIndices)
    /\ rp_result = rp_configs[Min(BestIndices)]

\* C3: the synthesized fallback (project = note, project_task = "-", role = "-")
\* is returned if and only if no config's tag set equals T or is a strict
\* subset of T; otherwise an element of the list is returned.  The note lists
\* the tags when T is non-empty and is the 'no tags' note when T is empty.
C3_FallbackIffNoCandidate ==
    rp_pc = "done" =>
        /\ IsFallbackResult <=> (ExactIndices \cup CandidateIndices = {})
        /\ (ExactIndices \cup CandidateIndices # {})
               => \E i \in 1..Len(rp_configs) : rp_result = rp_configs[i]

C3_Witness ==
    /\ rp_pc = "done"
    /\ Len(rp_tags) = 2
    /\ Len(rp_configs) >= 2
    /\ ExactIndices \cup CandidateIndices = {}
    /\ rp_result.project =
           <<"NO PROJECT FOUND FOR THESE TAGS: ">> \o rp_tags[1] \o <<", ">> \o rp_tags[2]

(***************************************************************************)
(* Properties of the rounding                                              *)
(***************************************************************************)
\* The least k with 900 * k >= x.
LeastBlocks(x) ==
    CHOOSE k \in 0..(x \div 900 + 1) : 900 * k >= x /\ (k = 0 \/ 900 * (k - 1) < x)

\* C4: for an integer multiplier m >= 1 the billable minutes are
\* 15 * ceil(raw * m / 900) for raw > 0 and 0 for raw = 0; raw = 1, m = 1 gives 15.
C4_BillableMinutesFormula ==
    (rd_pc = "done" /\ rd_mult.den = 1 /\ rd_mult.num >= 1)
        => /\ rd_minutes = IF rd_raw = 0 THEN 0
                           ELSE 15 * LeastBlocks(rd_raw * rd_mult.num)
           /\ (rd_raw = 1 /\ rd_mult.num = 1) => rd_minutes = 15

C4_Witness ==
    /\ rd_pc = "done"
    /\ rd_raw = 1
    /\ rd_mult = [num |-> 1, den |-> 1]
    /\ rd_minutes = 15

\* C5: for a fixed multiplier the billable minutes are non-decreasing in
\* raw_seconds, and for multiplier 1 they are divisible by 15.
C5_RoundingMonotone ==
    rd_pc = "done" =>
        /\ \A r1 \in 0..rd_raw :
               billable_minutes_from_raw_seconds(r1, rd_mult) <= rd_minutes
        /\ rd_mult = [num |-> 1, den |-> 1] => rd_minutes % 15 = 0

C5_Witness ==
    /\ rd_pc = "done"
    /\ rd_mult = [num |-> 1, den |-> 1]
    /\ rd_raw = 901
    /\ rd_minutes = 30
    /\ billable_minutes_from_raw_seconds(900, rd_mult) = 15

(***************************************************************************)
(* Properties of the record builder and the merge engine                   *)
(***************************************************************************)
\* The draft list before the last merge_drafts call, and its new draft.
Before == merge_call.drafts
NewDraft == merge_call.new_draft

\* The fields two drafts must agree on to be merge candidates.
SlotKey(d) ==
    <<d.date,
      IF on_display_values THEN d.project_display ELSE d.project,
      IF on_display_values THEN d.project_task_display ELSE d.project_task,
      d.role, d.type, d.multiplier, d.absorbable,
      IF format_in_merge THEN <<d.annotation_delimiter, d.output_separator>> ELSE <<>> >>

SameSlot(d, e) == SlotKey(d) = SlotKey(e)

SameSlotIndices == {i \in 1..Len(Before) : SameSlot(Before[i], NewDraft)}

\* The text before the first occurrence of the delimiter.
TextBeforeFirst(text, delimiter) ==
    LET hits == {k \in 1..Len(text) : MatchesAt(text, k, delimiter)}
    IN IF hits = {} THEN text ELSE SubSeq(text, 1, Min(hits) - 1)

\* The items of a list without their repetitions, in first-seen order.
FirstOccurrences(items) ==
    LET keep == {k \in 1..Len(items) : \A m \in 1..(k - 1) : items[m] # items[k]}
    IN [n \in 1..Cardinality(keep) |->
           items[CHOOSE k \in keep : Cardinality({m \in keep : m <= k}) = n]]

CombinedLength(i) == StrLen(Before[i].description) + StrLen(NewDraft.description)

\* Draft i of the list qualifies for merge rule 2 / rule 3 with the new draft.
Rule2Applies(i) ==
    /\ Before[i].description # NewDraft.description
    /\ merge_call.merge_on_equal_tags
    /\ CombinedLength(i) <= 500

Rule3Applies(i) ==
    /\ Before[i].description # NewDraft.description
    /\ TextBeforeFirst(Before[i].description, Before[i].annotation_delimiter)
         = TextBeforeFirst(NewDraft.description, Before[i].annotation_delimiter)
    /\ CombinedLength(i) <= 500

\* Seconds of the intervals at the given positions of the export.
RECURSIVE IntervalSeconds(_)
IntervalSeconds(positions) ==
    IF positions = <<>> THEN 0
    ELSE timew_entries[Head(positions)].end - timew_entries[Head(positions)].start
         + IntervalSeconds(Tail(positions))

\* Sum of the intervals' durations when each is rounded up on its own.
RECURSIVE IntervalMinutesRoundedEach(_, _)
IntervalMinutesRoundedEach(positions, multiplier) ==
    IF positions = <<>> THEN 0
    ELSE billable_minutes_from_raw_seconds(
             timew_entries[Head(positions)].end - timew_entries[Head(positions)].start,
             multiplier)
         + IntervalMinutesRoundedEach(Tail(positions), multiplier)

\* Seconds absorbed from the draft with the given sequence number.
AbsorbedFrom(draft) ==
    LET before == SelectSeq(drafts_merged, LAMBDA d : d.sequence = draft.sequence)
    IN before[1].raw_seconds - draft.raw_seconds

\* 15 * ceil(seconds * num / den / 900)
RoundUpMinutes(seconds, multiplier) ==
    15 * (CHOOSE k \in 0..(seconds * multiplier.num + 1) :
             /\ 900 * k * multiplier.den >= seconds * multiplier.num
             /\ k = 0 \/ 900 * (k - 1) * multiplier.den < seconds * multiplier.num)

\* C6: the duration_minutes of every output record is the 15-minute round-up
\* of multiplier * (total raw seconds of the intervals merged into the record
\* minus the seconds absorbed from it): it is rounded once, from the total.
C6_RoundedOncePerRecord ==
    pc = "done" =>
        /\ Len(records) = Len(draft_list)
        /\ \A i \in 1..Len(records) :
              records[i].duration_minutes =
                  RoundUpMinutes(
                      IntervalSeconds(merged_into[draft_list[i].sequence + 1])
                          - AbsorbedFrom(draft_list[i]),
                      draft_list[i].multiplier)

\* A record merged from two intervals whose duration is less than the sum of
\* the two rounded durations, beside a record that lost seconds to absorption
\* and whose duration differs from the round-up of multiplier * total - absorbed.
C6_Witness ==
    /\ pc = "done"
    /\ \E i \in 1..Len(records) :
          /\ Len(merged_into[draft_list[i].sequence + 1]) >= 2
          /\ records[i].duration_minutes <
                 IntervalMinutesRoundedEach(merged_into[draft_list[i].sequence + 1],
                                            draft_list[i].multiplier)
    /\ \E i \in 1..Len(records) :
          /\ AbsorbedFrom(draft_list[i]) > 0
          /\ records[i].duration_minutes > 0
          /\ records[i].duration_minutes #
                 RoundUpMinutes(
                     IntervalSeconds(merged_into[draft_list[i].sequence + 1])
                         * draft_list[i].multiplier.num
                         - AbsorbedFrom(draft_list[i]) * draft_list[i].multiplier.den,
                     [num |-> 1, den |-> draft_list[i].multiplier.den])

\* C7: merge_drafts leaves every existing draft that differs from the new draft
\* in date, project, task (id or display values, by merge_on_display_values),
\* role, type, multiplier or absorbable flag (and, with include_format_in_merge,
\* in annotation delimiter or output separator) unchanged; the intervals merged
\* into one draft all start on the draft's local calendar day.
C7_NoMergeAcrossSlots ==
    /\ (merge_call.called /\ pc = "loop") =>
          \A i \in 1..Len(Before) :
              ~SameSlot(Before[i], NewDraft) => draft_list[i] = Before[i]
    /\ pc = "loop" =>
          \A i \in 1..Len(draft_list) :
              \A k \in 1..Len(merged_into[draft_list[i].sequence + 1]) :
                  timew_entries[merged_into[draft_list[i].sequence + 1][k]].start \div 86400
                      = draft_list[i].date

\* The new draft equals an existing draft in everything but the day, and is
\* appended.
C7_Witness ==
    /\ merge_call.called
    /\ pc = "loop"
    /\ \E i \in 1..Len(Before) :
          /\ Before[i].date # NewDraft.date
          /\ [Before[i] EXCEPT !.date = NewDraft.date, !.sequence = NewDraft.sequence,
                               !.raw_seconds = NewDraft.raw_seconds] = NewDraft
    /\ draft_list = Append(Before, NewDraft)

\* The first same-slot draft with the new draft's description.
FirstIdentical ==
    Min({i \in SameSlotIndices : Before[i].description = NewDraft.description})

\* C8 as stated: whenever the list holds a same-slot draft with the new draft's
\* description, the new raw_seconds are summed into such a draft and no
\* description changes, whatever merge_on_equal_tags and the earlier same-slot
\* drafts are.
C8_IdenticalAlwaysWins ==
    (/\ merge_call.called
     /\ pc = "loop"
     /\ \E i \in SameSlotIndices : Before[i].description = NewDraft.description)
        => \E i \in SameSlotIndices :
              /\ Before[i].description = NewDraft.description
              /\ draft_list =
                     [Before EXCEPT ![i].raw_seconds = @ + NewDraft.raw_seconds]

\* C8 amended: whenever the list holds a same-slot draft with the new draft's
\* description and no same-slot draft before it qualifies for rule 2 or rule 3,
\* the new raw_seconds are summed into the first such draft and no description
\* changes, whatever merge_on_equal_tags is.
C8_IdenticalWinsUnlessEarlierRule ==
    (/\ merge_call.called
     /\ pc = "loop"
     /\ \E i \in SameSlotIndices : Before[i].description = NewDraft.description
     /\ \A j \in SameSlotIndices :
            j < FirstIdentical => ~Rule2Applies(j) /\ ~Rule3Applies(j))
        => draft_list =
               [Before EXCEPT ![FirstIdentical].raw_seconds = @ + NewDraft.raw_seconds]

\* The draft with the identical description stands behind another same-slot
\* draft, which matches no rule.
C8_Witness ==
    /\ merge_call.called
    /\ pc = "loop"
    /\ \E i \in SameSlotIndices : Before[i].description = NewDraft.description
    /\ \E j \in SameSlotIndices : j < FirstIdentical
    /\ \A j \in SameSlotIndices :
           j < FirstIdentical => ~Rule2Applies(j) /\ ~Rule3Applies(j)
    /\ draft_list =
           [Before EXCEPT ![FirstIdentical].raw_seconds = @ + NewDraft.raw_seconds]

\* C9: when merge_on_equal_tags is true for the new draft and the first
\* same-slot draft has a different description with a combined length <= 500,
\* the new raw_seconds are added to that draft, its description becomes the
\* first-seen-order deduplicated segments of existing + delimiter + new, and
\* the list keeps its length.
C9_MergeOnEqualTags ==
    (/\ merge_call.called
     /\ pc = "loop"
     /\ SameSlotIndices # {}
     /\ Rule2Applies(Min(SameSlotIndices)))
        => LET first == Min(SameSlotIndices)
               delimiter == Before[first].annotation_delimiter
               joined == Before[first].description \o delimiter \o NewDraft.description
           IN draft_list =
                  [Before EXCEPT
                     ![first].raw_seconds = @ + NewDraft.raw_seconds,
                     ![first].description =
                         Join(FirstOccurrences(Split(joined, delimiter)), delimiter)]

\* Rule 2 merged into the first same-slot draft and dropped a repeated segment.
C9_Witness ==
    /\ merge_call.called
    /\ pc = "loop"
    /\ SameSlotIndices # {}
    /\ Rule2Applies(Min(SameSlotIndices))
    /\ Len(draft_list) = Len(Before)
    /\ draft_list[Min(SameSlotIndices)].raw_seconds
           = Before[Min(SameSlotIndices)].raw_seconds + NewDraft.raw_seconds
    /\ StrLen(draft_list[Min(SameSlotIndices)].description)
           < StrLen(Before[Min(SameSlotIndices)].description) + StrLen(NewDraft.description)

\* The first same-slot draft that rule 1 or rule 3 matches, merge_on_equal_tags
\* being false.
TitleMatchIndices ==
    {i \in SameSlotIndices :
        Before[i].description = NewDraft.description \/ Rule3Applies(i)}

\* C10: with merge_on_equal_tags false, a same-slot draft with a different
\* description, the same title and a combined length <= 500 takes the new
\* draft: its raw_seconds is the sum and its description is the existing
\* description followed by the new description's non-title segments that are
\* not already present ("Standup; fixed bug" + "Standup; reviewed PR" gives
\* "Standup; fixed bug; reviewed PR").
C10_TitleMerge ==
    (/\ merge_call.called
     /\ pc = "loop"
     /\ ~merge_call.merge_on_equal_tags
     /\ TitleMatchIndices # {}
     /\ Rule3Applies(Min(TitleMatchIndices)))
        => LET i == Min(TitleMatchIndices)
               delimiter == Before[i].annotation_delimiter
               present == ToSet(Split(Before[i].description, delimiter))
               fresh == FirstOccurrences(
                            SelectSeq(Tail(Split(NewDraft.description, delimiter)),
                                      LAMBDA item : item \notin present))
           IN draft_list =
                  [Before EXCEPT
                     ![i].raw_seconds = @ + NewDraft.raw_seconds,
                     ![i].description =
                         IF fresh = <<>> THEN @ ELSE @ \o delimiter \o Join(fresh, delimiter)]

(***************************************************************************)
(* Properties of the merge order                                           *)
(***************************************************************************)
RECURSIVE TotalRawSeconds(_)
TotalRawSeconds(drafts) ==
    IF drafts = <<>> THEN 0 ELSE Head(drafts).raw_seconds + TotalRawSeconds(Tail(drafts))

\* C11: when two drafts A and B merge into one slot (one draft takes both, in
\* one order at least), the raw_seconds summed over the slot are the same
\* after inserting A then B and after inserting B then A.
C11_MergeTotalsCommute ==
    (/\ commute_call.pc = "done"
     /\ \/ Len(commute_call.first_then_second) = 1
        \/ Len(commute_call.second_then_first) = 1)
        => TotalRawSeconds(commute_call.first_then_second)
               = TotalRawSeconds(commute_call.second_then_first)

\* Two drafts of different durations merge in both orders, and the two
\* descriptions list the segments in different orders.
C11_Witness ==
    /\ commute_call.pc = "done"
    /\ Len(commute_call.first_then_second) = 1
    /\ Len(commute_call.second_then_first) = 1
    /\ commute_call.first.end - commute_call.first.start
           # commute_call.second.end - commute_call.second.start
    /\ commute_call.first_then_second[1].description
           # commute_call.second_then_first[1].description
    /\ commute_call.first_then_second[1].raw_seconds
           = commute_call.second_then_first[1].raw_seconds

(***************************************************************************)
(* Properties of merge_annotations                                         *)
(***************************************************************************)
NoDuplicates(items) == \A i, j \in 1..Len(items) : items[i] = items[j] => i = j

\* The segments of the merged string are those of existing + delimiter +
\* addition without repetitions, in first-seen order; merging the addition
\* again changes nothing; an existing string without repeated segments merged
\* with itself is returned as it is.
MergeAnnotationsLaws ==
    LET existing == annotations_call.existing
        addition == annotations_call.addition
        delimiter == annotations_call.delimiter
    IN /\ NoDuplicates(Split(annotations_call.merged, delimiter))
       /\ Split(annotations_call.merged, delimiter)
              = FirstOccurrences(Split(existing \o delimiter \o addition, delimiter))
       /\ annotations_call.merged_again = annotations_call.merged
       /\ NoDuplicates(Split(existing, delimiter))
              => annotations_call.merged_with_itself = existing

\* No proper, non-empty prefix of the delimiter is also a suffix of it.
SelfOverlapFree(delimiter) ==
    \A k \in 1..(Len(delimiter) - 1) :
        SubSeq(delimiter, 1, k) # SubSeq(delimiter, Len(delimiter) - k + 1, Len(delimiter))

\* C12 as stated: for all strings and every delimiter, merge_annotations
\* returns a string without duplicate segments, in first-seen order, is
\* idempotent, and merge_annotations(X, X, d) = X for a deduplicated X.
C12_MergeAnnotationsIdempotent ==
    annotations_call.pc = "done" => MergeAnnotationsLaws

\* C12 amended: the same, for a delimiter that cannot overlap itself (no
\* proper prefix of it is also a suffix), such as the default "; ".
C12_IdempotentForSelfOverlapFreeDelimiter ==
    (annotations_call.pc = "done" /\ SelfOverlapFree(annotations_call.delimiter))
        => MergeAnnotationsLaws

\* A repeated segment was dropped by the merge, with the default delimiter.
C12_Witness ==
    /\ annotations_call.pc = "done"
    /\ annotations_call.delimiter = DEFAULT_ANNOTATION_DELIMITER
    /\ Len(Split(annotations_call.existing, annotations_call.delimiter)) >= 2
    /\ Len(annotations_call.merged)
           < Len(annotations_call.existing) + Len(annotations_call.delimiter)
               + Len(annotations_call.addition)
    /\ annotations_call.addition # <<>>
    /\ MergeAnnotationsLaws

(***************************************************************************)
(* Properties of apply_absorption                                          *)
(***************************************************************************)
\* apply_absorption was called: on drafts_merged, giving draft_list and
\* absorption_report.
AbsorptionRan == pc = "done" /\ StrTruthy(dyn_config.absorb_tag)

DaysOf(drafts) == {drafts[i].date : i \in 1..Len(drafts)}

DraftsOn(drafts, day) == SelectSeq(drafts, LAMBDA d : d.date = day)

WorkOn(drafts, day) == SelectSeq(drafts, LAMBDA d : d.date = day /\ ~d.absorbable)

AdminOn(drafts, day) == SelectSeq(drafts, LAMBDA d : d.date = day /\ d.absorbable)

ReportsOn(day) == SelectSeq(absorption_report, LAMBDA r : r.date = day)

\* Seconds from raw_seconds up to the next multiple of 900.
SlackOf(raw_seconds) ==
    (CHOOSE k \in 0..raw_seconds :
        900 * k >= raw_seconds /\ (k = 0 \/ 900 * (k - 1) < raw_seconds)) * 900
      - raw_seconds

RECURSIVE TotalSlack(_)
TotalSlack(drafts) ==
    IF drafts = <<>> THEN 0 ELSE SlackOf(Head(drafts).raw_seconds) + TotalSlack(Tail(drafts))

\* C13: for every day, apply_absorption leaves the work drafts as they are, the
\* admin total after is at most the admin total before, and the day's report
\* gives absorbed_seconds = before - after, with absorbed_seconds <=
\* slack_seconds, the slack of the day's work drafts.
C13_AbsorptionConservation ==
    AbsorptionRan =>
        \A day \in DaysOf(drafts_merged) :
            LET before == TotalRawSeconds(AdminOn(drafts_merged, day))
                after == TotalRawSeconds(AdminOn(draft_list, day))
            IN /\ WorkOn(draft_list, day) = WorkOn(drafts_merged, day)
               /\ after <= before
               /\ Len(ReportsOn(day)) <= 1
               /\ ReportsOn(day) = <<>> => after = before
               /\ \A k \in 1..Len(ReportsOn(day)) :
                     /\ ReportsOn(day)[k].absorbed_seconds = before - after
                     /\ ReportsOn(day)[k].absorbed_seconds <= ReportsOn(day)[k].slack_seconds
                     /\ ReportsOn(day)[k].slack_seconds
                            = TotalSlack(WorkOn(drafts_merged, day))

\* A day whose admin drafts lose a part of their seconds to the slack of the
\* day's work drafts.
C13_Witness ==
    /\ AbsorptionRan
    /\ \E k \in 1..Len(absorption_report) :
          /\ absorption_report[k].absorbed_seconds > 0
          /\ absorption_report[k].absorbed_seconds < absorption_report[k].admin_raw_seconds
          /\ absorption_report[k].absorbed_seconds = absorption_report[k].slack_seconds
          /\ WorkOn(draft_list, absorption_report[k].date) # <<>>

\* Position of the draft with the given sequence number.
PositionOf(drafts, sequence) == CHOOSE i \in 1..Len(drafts) : drafts[i].sequence = sequence

\* C14: the list apply_absorption returns is ordered by strictly increasing
\* sequence number and keeps the surviving drafts in the relative order of the
\* input list, whatever the days and their interleaving.
C14_SequenceRestoration ==
    AbsorptionRan =>
        /\ \A i \in 1..Len(draft_list) :
              \E j \in 1..Len(drafts_merged) :
                  drafts_merged[j].sequence = draft_list[i].sequence
        /\ \A i, j \in 1..Len(draft_list) :
              i < j =>
                  /\ draft_list[i].sequence < draft_list[j].sequence
                  /\ PositionOf(drafts_merged, draft_list[i].sequence)
                         < PositionOf(drafts_merged, draft_list[j].sequence)

\* The input list has a draft of a later day before a draft of an earlier day,
\* an admin draft was removed and two drafts survive.
C14_Witness ==
    /\ AbsorptionRan
    /\ \E i, j \in 1..Len(drafts_merged) :
          i < j /\ drafts_merged[i].date > drafts_merged[j].date
    /\ Len(draft_list) < Len(drafts_merged)
    /\ Len(draft_list) >= 2

\* C15: the drafts of a day after apply_absorption and the day's report are
\* those apply_absorption gives for the day's drafts alone, and a day without
\* absorbable drafts is returned unchanged.
C15_AbsorptionLocalToDay ==
    AbsorptionRan =>
        \A day \in DaysOf(drafts_merged) :
            LET alone == apply_absorption(DraftsOn(drafts_merged, day), dyn_config.absorb_tag)
            IN /\ DraftsOn(draft_list, day) = alone.updated
               /\ ReportsOn(day) = alone.reports
               /\ AdminOn(drafts_merged, day) = <<>> =>
                     /\ DraftsOn(draft_list, day) = DraftsOn(drafts_merged, day)
                     /\ ReportsOn(day) = <<>>

\* A day with admin drafts and no slack keeps all its admin seconds while
\* another day has unused slack.
C15_Witness ==
    /\ AbsorptionRan
    /\ \E k \in 1..Len(absorption_report) :
          /\ absorption_report[k].slack_seconds = 0
          /\ absorption_report[k].absorbed_seconds = 0
          /\ AdminOn(draft_list, absorption_report[k].date)
                 = AdminOn(drafts_merged, absorption_report[k].date)
          /\ \E day \in DaysOf(drafts_merged) :
                /\ day # absorption_report[k].date
                /\ TotalSlack(WorkOn(drafts_merged, day)) > 0

(***************************************************************************)
(* Properties of the exclusions                                            *)
(***************************************************************************)
\* The interval has no end or carries an excluded tag.
IsSkipped(timew_entry) ==
    \/ "end" \notin DOMAIN timew_entry
    \/ \E i \in 1..Len(timew_entry.tags) : timew_entry.tags[i] \in dyn_config.exclude_tags

\* The run of the export read so far.
ThisRun ==
    [config |-> dyn_config, merge_on_display_values |-> on_display_values,
     include_format_in_merge |-> format_in_merge]

\* The intervals read so far that are not skipped.
Remaining == SelectSeq(timew_entries, LAMBDA timew_entry : ~IsSkipped(timew_entry))

\* C16: intervals without an end and intervals with an excluded tag contribute
\* nothing and consume no sequence number: the draft list is the one built from
\* the remaining intervals alone, the sequence counter counts the remaining
\* intervals, and the draft built from the n-th of them has sequence n - 1.
C16_SkippedIntervalsLeaveNoTrace ==
    pc = "loop" =>
        /\ draft_list = BuildDrafts(Remaining, ThisRun, <<>>, 0)
        /\ next_sequence = Len(Remaining)
        /\ \A i \in 1..Len(draft_list) : draft_list[i].sequence \in 0..(Len(Remaining) - 1)
        /\ (timew_entries # <<>> /\ IsSkipped(timew_entries[Len(timew_entries)]))
               => ~merge_call.called
        /\ merge_call.called =>
               /\ merge_call.new_draft.sequence = Len(Remaining) - 1
               /\ merge_call.drafts
                      = BuildDrafts(SubSeq(Remaining, 1, Len(Remaining) - 1), ThisRun, <<>>, 0)

\* An interval with an excluded tag and an interval without an end come before
\* the first remaining interval, whose draft gets the sequence number 0.
C16_Witness ==
    /\ pc = "loop"
    /\ Len(timew_entries) = 3
    /\ "end" \in DOMAIN timew_entries[1] /\ IsSkipped(timew_entries[1])
    /\ "end" \notin DOMAIN timew_entries[2]
    /\ merge_call.called
    /\ merge_call.new_draft.sequence = 0
    /\ Len(draft_list) = 1
    /\ draft_list[1].sequence = 0

(***************************************************************************)
(* Properties of build_dynamics_draft                                      *)
(***************************************************************************)
\* Override if present (the default when it is empty), else the project
\* configuration's value if it has a non-empty one, else the default.
ResolvedFormat(override, project_config, key, default) ==
    IF override # NoStr
    THEN IF override = <<>> THEN default ELSE override
    ELSE IF key \in DOMAIN project_config
            /\ project_config[key] # NoStr /\ project_config[key] # <<>>
         THEN project_config[key]
         ELSE default

\* C17: the annotation delimiter and the output separator of a draft are the
\* run-level override if present, else the project config value, else the
\* built-in default ("; " and newline), an empty override or empty project value
\* giving the default; neither is ever empty.
C17_DelimiterResolution ==
    draft_call.pc = "done" =>
        /\ draft_call.draft.annotation_delimiter =
               ResolvedFormat(draft_call.config.annotation_delimiter_override,
                              draft_call.project_config, "annotation_delimiter",
                              <<";", " ">>)
        /\ draft_call.draft.output_separator =
               ResolvedFormat(draft_call.config.annotation_output_separator_override,
                              draft_call.project_config, "annotation_output_separator",
                              <<"NL">>)
        /\ draft_call.draft.annotation_delimiter # <<>>
        /\ draft_call.draft.annotation_delimiter # NoStr
        /\ draft_call.draft.output_separator # <<>>
        /\ draft_call.draft.output_separator # NoStr

\* An empty override beside a project value gives the default, for the
\* delimiter (used to join the prefix and the annotation) and the separator.
C17_Witness ==
    /\ draft_call.pc = "done"
    /\ draft_call.config.annotation_delimiter_override = <<>>
    /\ draft_call.config.annotation_output_separator_override = <<>>
    /\ "annotation_delimiter" \in DOMAIN draft_call.project_config
    /\ draft_call.project_config.annotation_delimiter = <<"|">>
    /\ "annotation_output_separator" \in DOMAIN draft_call.project_config
    /\ draft_call.project_config.annotation_output_separator = <<",">>
    /\ draft_call.draft.annotation_delimiter = <<";", " ">>
    /\ draft_call.draft.output_separator = <<"NL">>
    /\ draft_call.draft.description = <<"T", ";", " ", "a">>

(***************************************************************************)
(* Properties of the configuration precedence                              *)
(***************************************************************************)
HeaderHasKey == value_call.key \in DOMAIN value_call.header

EnvHasKey == env_key_for_header(value_call.key) \in DOMAIN value_call.environ

HeaderValue == Strip(value_call.header[value_call.key])

EnvValue == Strip(value_call.environ[env_key_for_header(value_call.key)])

\* Override-style settings use the environment over the header.
OverrideIsEnvOverHeader ==
    value_call.override =
        IF EnvHasKey THEN EnvValue ELSE IF HeaderHasKey THEN HeaderValue ELSE NoStr

\* C18 as stated: _resolve_value gives the header's value when the header has
\* the key, the environment variable's only when the header lacks it, and the
\* default only when both lack it.
C18_HeaderOverEnv ==
    value_call.pc = "done" =>
        /\ value_call.value =
               IF HeaderHasKey THEN HeaderValue
               ELSE IF EnvHasKey THEN EnvValue
               ELSE DefaultOf(value_call.key)
        /\ OverrideIsEnvOverHeader

\* C18 amended: _resolve_value gives the environment variable's value when it
\* is set, the header's only when the variable is not set, and the default only
\* when both lack the key: the order of the override-style settings.
C18_EnvOverHeader ==
    value_call.pc = "done" =>
        /\ value_call.value =
               IF EnvHasKey THEN EnvValue
               ELSE IF HeaderHasKey THEN HeaderValue
               ELSE DefaultOf(value_call.key)
        /\ OverrideIsEnvOverHeader

\* The header and the environment both define the key, with different
\* values, and the environment's is returned.
C18_Witness ==
    /\ value_call.pc = "done"
    /\ HeaderHasKey
    /\ EnvHasKey
    /\ HeaderValue = <<"h">>
    /\ EnvValue = <<"f">>
    /\ value_call.value = <<"f">>


(***************************************************************************)
(* Properties of LLMRefiner.refine                                         *)
(***************************************************************************)
Returned == refine_call.pc = "returned"

\* The last call reached the external service.
ServiceCalled == Returned /\ refine_call.payload # NoPayload

LastSettings == EffectiveSettings(refine_call.self, refine_call.overrides)

LastAnswer == call_model(refine_call.response, LastSettings.provider)

LastVisibleCount ==
    Len(VisibleSegments(Segments(refine_call.description, refine_call.delimiter)))

\* The failures of a call: a disabled refiner or override, a missing model,
\* endpoint or key, a service call that raises, an answer that is no list of
\* segments, a list of another length than the visible segments.
RefineFailed ==
    \/ ~refine_call.self.enabled
    \/ "enabled" \in DOMAIN refine_call.overrides /\ refine_call.overrides["enabled"] = FALSE
    \/ LastSettings.model = <<>> \/ LastSettings.endpoint = <<>>
    \/ LastSettings.provider = OpenAI /\ LastSettings.api_key \in {NoStr, <<>>}
    \/ ServiceCalled /\ LastAnswer.raises # "none"
    \/ ServiceCalled /\ LastAnswer.raises = "none" /\ LastAnswer.is_none
    \/ ServiceCalled /\ LastAnswer.raises = "none" /\ ~LastAnswer.is_none
          /\ Len(LastAnswer.segments) # LastVisibleCount

\* C19: refine returns exactly the original description whenever the refiner
\* or the record's override is disabled, the model, the endpoint or the key is
\* missing, the service call raises, the answer is malformed, or the number of
\* returned segments differs from the number of visible segments; and no call
\* of refine raises.
C19_RefineFallsBack ==
    Returned =>
        /\ refine_call.raises = "none"
        /\ RefineFailed => refine_call.returns = refine_call.description

\* An enabled refiner that has refined one description is called again; the
\* service answers with no JSON at all, and the description, with its blanks
\* and its hidden segment, comes back as it was.
C19_Witness ==
    /\ ServiceCalled
    /\ DOMAIN refine_call.cache_before # {}
    /\ refine_call.response.status = "ok"
    /\ refine_call.response.json.type = "invalid"
    /\ refine_call.description = <<"a", " ", ";", " ", "+", "+", "t", "+", "+">>
    /\ refine_call.returns = refine_call.description
    /\ refine_call.raises = "none"

\* Two descriptions with the same segments, except for what stands between the
\* markers of their hidden segments.
DiffersOnlyInHidden(description, other, delimiter) ==
    LET segments == Segments(description, delimiter)
        others == Segments(other, delimiter)
    IN /\ Len(segments) = Len(others)
       /\ \A i \in 1..Len(segments) :
              IF IsHidden(segments[i]) THEN IsHidden(others[i]) ELSE others[i] = segments[i]

\* C20: hidden segments are never sent: a description that differs from the
\* one of the call only in the content of its hidden segments gives the same
\* request payload.
C20_HiddenSegmentsNotSent ==
    ServiceCalled =>
        \A other \in RefineDescriptions :
            DiffersOnlyInHidden(refine_call.description, other, refine_call.delimiter) =>
                RequestOf(refine_call.self, EmptyDict, other, refine_call.delimiter,
                          refine_call.output_separator, refine_call.context,
                          refine_call.overrides)
                    = refine_call.payload

LastSegments == Segments(refine_call.description, refine_call.delimiter)

ReturnedSegments == Segments(refine_call.returns, refine_call.delimiter)

\* C21: the string refine returns, split on the delimiter, has as many
\* segments as the description, and every hidden segment of the description
\* stands unchanged at its position.
C21_SegmentsPreserved ==
    Returned /\ refine_call.raises = "none" =>
        /\ Len(ReturnedSegments) = Len(LastSegments)
        /\ \A i \in 1..Len(LastSegments) :
               IsHidden(LastSegments[i]) => ReturnedSegments[i] = LastSegments[i]

(***************************************************************************)
(* Properties of the overtime report                                       *)
(***************************************************************************)
OvertimeDone == overtime_call.pc = "done"

\* WORK_DAYS is set and names no day: none of its comma-separated parts is a
\* number from 1 to 7.
WorkDaysEmpty ==
    /\ overtime_call.work_days_env # NoStr
    /\ \A i \in 1..Len(Split(overtime_call.work_days_env, <<",">>)) :
           LET item == Strip(Split(overtime_call.work_days_env, <<",">>)[i])
           IN ~IsNumber(item) \/ IntOf(item) < 1 \/ IntOf(item) > 7

C30_DayConsistency ==
    OvertimeDone =>
        \A i \in 1..Len(overtime_call.result.rows) :
            LET day == overtime_call.result.rows[i]
            IN day.has_segments =>
                   /\ day.to_second_of_day - day.from_second_of_day
                          = day.actual_seconds + day.pause_seconds
                   /\ day.overtime_seconds = day.actual_seconds - day.expected_seconds

(***************************************************************************)
(* Further properties of apply_absorption and merge_drafts                 *)
(***************************************************************************)
\* The draft with the given sequence number is in the list.
Survives(drafts, sequence) == \E i \in 1..Len(drafts) : drafts[i].sequence = sequence

\* raw_seconds of a draft after apply_absorption, 0 when it was dropped.
RawSecondsAfter(sequence) ==
    IF Survives(draft_list, sequence)
    THEN draft_list[PositionOf(draft_list, sequence)].raw_seconds
    ELSE 0

\* C23: within a day the admin drafts give up their seconds in the order of
\* their sequence numbers: a draft loses seconds only when every admin draft
\* of the day before it lost all of its seconds and was dropped, so at most
\* one surviving admin draft is reduced and those after it are unchanged;
\* when an admin draft survives, the slack of the day is used up.
C23_GreedyInSequenceOrder ==
    AbsorptionRan =>
        \A day \in DaysOf(drafts_merged) :
            LET admin == AdminOn(drafts_merged, day)
                lost(k) == admin[k].raw_seconds - RawSecondsAfter(admin[k].sequence)
            IN /\ \A i, j \in 1..Len(admin) : i < j => admin[i].sequence < admin[j].sequence
               /\ \A j \in 1..Len(admin) :
                     /\ lost(j) >= 0
                     /\ Survives(draft_list, admin[j].sequence)
                            <=> RawSecondsAfter(admin[j].sequence) > 0
                     /\ lost(j) > 0 =>
                            \A i \in 1..(j - 1) : ~Survives(draft_list, admin[i].sequence)
               /\ (\E j \in 1..Len(admin) : Survives(draft_list, admin[j].sequence)) =>
                     SumSeq([k \in 1..Len(admin) |-> lost(k)])
                         = TotalSlack(WorkOn(drafts_merged, day))

\* The first admin draft of a day was dropped and the second one lost a part
\* of its seconds.
C23_Witness ==
    /\ AbsorptionRan
    /\ \E day \in DaysOf(drafts_merged) :
          LET admin == AdminOn(drafts_merged, day)
          IN /\ Len(admin) = 2
             /\ ~Survives(draft_list, admin[1].sequence)
             /\ RawSecondsAfter(admin[2].sequence) > 0
             /\ RawSecondsAfter(admin[2].sequence) < admin[2].raw_seconds

\* C24: every draft has raw_seconds >= 0 after every merge and after
\* absorption, and the list apply_absorption returns has no absorbable draft
\* with raw_seconds = 0.
C24_RawSecondsNotNegative ==
    /\ \A i \in 1..Len(draft_list) : draft_list[i].raw_seconds >= 0
    /\ AbsorptionRan =>
           \A i \in 1..Len(draft_list) :
               draft_list[i].absorbable => draft_list[i].raw_seconds > 0

\* All seconds of an admin draft were absorbed, and another admin draft is in
\* the list that is returned.
C24_Witness ==
    /\ AbsorptionRan
    /\ \E i \in 1..Len(drafts_merged) :
          /\ drafts_merged[i].absorbable
          /\ drafts_merged[i].raw_seconds > 0
          /\ ~Survives(draft_list, drafts_merged[i].sequence)
    /\ \E i \in 1..Len(draft_list) : draft_list[i].absorbable

ReportDates == [k \in 1..Len(absorption_report) |-> absorption_report[k].date]

ReportDatesAscend ==
    \A i, j \in 1..Len(absorption_report) :
        i < j => absorption_report[i].date < absorption_report[j].date

\* C25 (as stated): apply_absorption gives exactly one report for every day of
\* the draft list, in ascending order of the dates.
C25_ReportForEveryDay ==
    AbsorptionRan =>
        /\ ReportDatesAscend
        /\ ToSet(ReportDates) = DaysOf(drafts_merged)

\* C25 (amended): apply_absorption gives exactly one report for every day that
\* has an absorbable draft and none for the other days, in ascending order of
\* the dates.
C25_ReportForEveryAdminDay ==
    AbsorptionRan =>
        /\ ReportDatesAscend
        /\ ToSet(ReportDates)
               = {day \in DaysOf(drafts_merged) : AdminOn(drafts_merged, day) # <<>>}

\* A day with an admin draft got its report and a day without one got none.
C25_Witness ==
    /\ AbsorptionRan
    /\ Len(absorption_report) = 1
    /\ \E day \in DaysOf(drafts_merged) : AdminOn(drafts_merged, day) = <<>>

\* Seconds of the intervals read so far that are not skipped.
RECURSIVE IntervalSecondsOf(_)
IntervalSecondsOf(timew_entry_list) ==
    IF timew_entry_list = <<>> THEN 0
    ELSE (Head(timew_entry_list)["end"] - Head(timew_entry_list).start)
             + IntervalSecondsOf(Tail(timew_entry_list))

\* The indices at which two lists of the same length differ.
ChangedAt(before, after) == {i \in 1..Len(before) : before[i] # after[i]}

C27_DescriptionLengthBound ==
    pc = "loop" =>
        \A i \in 1..Len(draft_list) :
            StrLen(draft_list[i].description) <= MAX_DESCRIPTION_LENGTH

\* C28: after a merge_drafts call every segment of the changed draft's
\* description was a segment of the existing description or of the new
\* draft's description.
C28_NoInventedSegments ==
    (pc = "loop" /\ merge_call.called /\ Len(draft_list) = Len(merge_call.drafts)) =>
        \A i \in ChangedAt(merge_call.drafts, draft_list) :
            LET delimiter == merge_call.drafts[i].annotation_delimiter
            IN ToSet(Split(draft_list[i].description, delimiter))
                   \subseteq ToSet(Split(merge_call.drafts[i].description, delimiter))
                                 \cup ToSet(Split(merge_call.new_draft.description, delimiter))

(***************************************************************************)
(* Properties of allocate_widths                                           *)
(***************************************************************************)
\* The call is over: it returned or it raised.
AllocateOver == allocate_call.pc \in {"done", "raised"}

\* The call has a total_width and elastic_indices that are not empty.
AllocateAdjusts ==
    /\ allocate_call.pc # "idle"
    /\ ~allocate_call.total_width.is_none
    /\ allocate_call.elastic_indices # <<>>

\* A column that is narrower than it was is not below its minimum width, and
\* a column that is not elastic is as wide as it was.
ShrinksWithinMinimum ==
    (AllocateAdjusts /\ allocate_call.pc \in {"shrink", "widen", "done"}) =>
        LET adjusted == allocate_call.locals.adjusted
            widths == allocate_call.widths
            min_widths == MinWidthsOf(allocate_call.min_widths, widths)
        IN \A k \in 1..Len(widths) :
               /\ adjusted[k] < widths[k] => adjusted[k] >= min_widths[k]
               /\ (k - 1) \notin ToSet(allocate_call.elastic_indices) => adjusted[k] = widths[k]

\* A pass of the shrinking loop leaves less overflow than it found, or raises:
\* a pass that does not leaves every local as it was, and the loop goes on
\* for ever.
ShrinkPassLowersOverflow ==
    (/\ AllocateAdjusts
     /\ allocate_call.pc = "shrink"
     /\ ShrinkGoesOn(allocate_call.locals.overflow, allocate_call.locals.capacities,
                     allocate_call.elastic_indices)) =>
        LET after == ShrinkFor(allocate_call.locals, allocate_call.locals.shrink_order)
        IN after.raised \/ after.overflow < allocate_call.locals.overflow

\* C29: allocate_widths comes to an end for every total_width, non-empty
\* elastic_indices and shrink_order (every pass of its shrinking loop lowers
\* the overflow), and when it shrinks it takes no column below its minimum
\* width and changes no column that is not elastic.
C29_AllocateTerminates == ShrinkPassLowersOverflow /\ ShrinksWithinMinimum

\* The call comes to an end, as a property of the behaviours.
AllocateComesToAnEnd == <>AllocateOver
=============================================================================
